---- MODULE Spec2Model ----
(***************************************************************************)
(* Tab5duino framework: the framework controller (src/src/Tab5duino.cpp)   *)
(* and the LVGL integration (src/framework/libraries/LVGL/                 *)
(* lvgl_tab5duino.cpp) as state machines.                                  *)
(*                                                                         *)
(* Specifications:                                                         *)
(*   SpecLvgl  - lvgl_tab5_init/start/stop/deinit called by an application *)
(*               on its own handle slots, every external call (allocator,  *)
(*               HALs, esp_timer, task creation) free to fail.             *)
(*   Spec      - the controller's entry points called from one control     *)
(*               path, the main loop task running beside it.               *)
(*   SpecLive  - tab5duino_init/start/stop/deinit and the main loop task   *)
(*               under the scheduler's fairness.                           *)
(*   SpecFault - Spec with the placeholder HAL calls present and failing.  *)
(*   SpecLock  - the engine task and user tasks on one handle's mutex.     *)
(*   SpecHelper - the engine task and a task calling the screen helpers.   *)
(*   SpecCancel - SpecLock with lvgl_tab5_stop / start deleting and        *)
(*               re-creating the engine task.                              *)
(*   SpecNested - the holder of the mutex calling lvgl_tab5_lock and the   *)
(*               helpers again.                                            *)
(*   SpecSelf  - SpecLive's actions with the loop task calling             *)
(*               tab5duino_stop / tab5duino_deinit itself.                 *)
(*   SpecFair  - the engine task and user tasks waiting forever for the    *)
(*               mutex, every ready task scheduled.                        *)
(*   SpecTouch - touchpad_read_cb on every combination of its inputs.      *)
(*   SpecFlush - display_flush_cb on every combination of its inputs.      *)
(***************************************************************************)
EXTENDS Integers, Sequences, FiniteSets, TLC

\* ------------------------------------------------------------------------
\* Bounds of the model
\* ------------------------------------------------------------------------
MaxHandles == 2
MaxTimers == 2
MaxTime == 2
MaxLoops == 1
MaxCoord == 1
MaxTicks == 2
MaxFrames == 1
MaxPoints == 2

NULL == 0

HandleIds == 1..MaxHandles
TimerIds == 1..MaxTimers

\* esp_err_t values used by the code
ESP_OK == "ESP_OK"
ESP_FAIL == "ESP_FAIL"
ESP_ERR_NO_MEM == "ESP_ERR_NO_MEM"
ESP_ERR_INVALID_ARG == "ESP_ERR_INVALID_ARG"
ESP_ERR_INVALID_STATE == "ESP_ERR_INVALID_STATE"
ESP_ERR_TIMEOUT == "ESP_ERR_TIMEOUT"
ESP_ERR_NOT_SUPPORTED == "ESP_ERR_NOT_SUPPORTED"

\* The statuses a failing HAL or esp_timer call is made to return
HalErrors == {ESP_FAIL, ESP_ERR_TIMEOUT}

Min(S) == CHOOSE x \in S : \A y \in S : x <= y

VARIABLES
    \* ---- LVGL integration (lvgl_tab5duino.cpp) ----
    lv,            \* the heap and the static objects of the integration
    app_handle,    \* the application's handle variables (SpecLvgl)
    lv_last,       \* the last lvgl_tab5_* call and what it returned
    \* ---- framework controller (Tab5duino.cpp) ----
    config,              \* g_tab5duino_instance.config
    subsystem_states,    \* g_tab5duino_instance.subsystem_states
    loop_task_handle,    \* g_tab5duino_instance.loop_task_handle (0 = NULL)
    framework_initialized,
    user_setup_called,
    boot_time_us,
    lvgl_handle,         \* the static lvgl_handle of tab5duino_init_subsystem
    usb_installed,       \* the USB-serial-JTAG driver is installed
    ctl,                 \* where the control path is inside a controller call
    last,                \* the last controller call that returned
    hooks,               \* the user hooks the current controller call has invoked
    order,               \* the bring-ups of tab5duino_init, the teardowns of tab5duino_deinit
    main_task,           \* the loop task: its position and what it has called
    \* ---- render lock (SpecLock) ----
    mutex_holder, tpc, twait, tres,
    engine,
    render,        \* the LVGL objects the lock protects (SpecHelper)
    \* ---- flush callback (SpecFlush) ----
    flush,
    \* ---- touch read callback (SpecTouch) ----
    touch,
    \* ---- environment ----
    hal_faults     \* the HAL calls of the placeholder subsystems may fail (SpecFault)

lvVars == <<lv, app_handle, lv_last>>
ctlVars == <<config, subsystem_states, loop_task_handle, framework_initialized,
             user_setup_called, boot_time_us, lvgl_handle, usb_installed,
             ctl, last, hooks, order, main_task>>
lockVars == <<mutex_holder, tpc, twait, tres, engine, render>>
flushVars == <<flush>>
touchVars == <<touch>>
vars == <<lvVars, ctlVars, lockVars, flushVars, touchVars, hal_faults>>

\* ========================================================================
\* LVGL integration: lvgl_tab5duino.cpp
\* ========================================================================

\* struct lvgl_tab5_handle_s with its lvgl_tab5_context_t; a pointer field is
\* TRUE when it is non-null
ZeroHandle ==
    [display |-> FALSE, touchpad |-> FALSE, draw_buffer |-> FALSE,
     buffer1 |-> FALSE, buffer2 |-> FALSE, display_hal |-> FALSE,
     touch_hal |-> FALSE, lvgl_task |-> FALSE, lvgl_mutex |-> FALSE,
     initialized |-> FALSE, started |-> FALSE,
     enable_double_buffer |-> FALSE, enable_ppa_acceleration |-> FALSE]

\* The heap objects lvgl_tab5_init creates, named by the handle they were
\* created for
ResourceKinds == {"mutex", "display_hal", "touch_hal", "buffer1", "buffer2", "draw_buffer"}

ZeroTimer == [live |-> FALSE, running |-> FALSE, arg |-> NULL]

LvWorldInit ==
    [handles |-> [h \in HandleIds |-> ZeroHandle],
     live |-> {},
     res |-> [k \in ResourceKinds |-> {}],
     hal_started |-> [k \in {"display_hal", "touch_hal"} |-> {}],
     tasks |-> {},
     timers |-> [t \in TimerIds |-> ZeroTimer],
     tick_timer |-> NULL]

\* LVGL_TAB5_CONFIG_DEFAULT and the configurations the application passes
LVGL_TAB5_CONFIG_DEFAULT ==
    [enable_double_buffer |-> TRUE, enable_ppa_acceleration |-> TRUE]

LvConfigs == {LVGL_TAB5_CONFIG_DEFAULT,
              [LVGL_TAB5_CONFIG_DEFAULT EXCEPT !.enable_double_buffer = FALSE]}

FreeHandles(w) == HandleIds \ w.live
FreeTimers(w) == {t \in TimerIds : ~w.timers[t].live}

\* ---- lvgl_tab5_stop ----------------------------------------------------
LvStop(w, h) ==
    IF h = NULL THEN [w |-> w, ret |-> ESP_ERR_INVALID_ARG]
    ELSE IF ~w.handles[h].started THEN [w |-> w, ret |-> ESP_OK]
    ELSE
      LET t == w.tick_timer
          w1 == IF w.handles[h].lvgl_task
                  THEN [w EXCEPT !.tasks = @ \ {h},
                                 !.handles[h].lvgl_task = FALSE]
                  ELSE w
          w2 == IF t # NULL /\ w1.timers[t].live
                  THEN [w1 EXCEPT !.timers[t].running = FALSE]
                  ELSE w1
          w3 == [w2 EXCEPT !.hal_started["display_hal"] = @ \ {h},
                           !.hal_started["touch_hal"] = @ \ {h},
                           !.handles[h].started = FALSE]
      IN [w |-> w3, ret |-> ESP_OK]

\* ---- lvgl_tab5_deinit --------------------------------------------------
\* esp_timer_delete refuses an armed timer; the static pointer is cleared
\* whatever it returned
DeleteTickTimer(w) ==
    LET t == w.tick_timer
    IN IF t = NULL THEN w
       ELSE [w EXCEPT !.timers[t] = IF @.running THEN @ ELSE ZeroTimer,
                      !.tick_timer = NULL]

\* The field of the handle that points to each kind of heap object
FieldOf == [k \in ResourceKinds |-> IF k = "mutex" THEN "lvgl_mutex" ELSE k]

\* lines 400-425: every object whose pointer in the handle is non-null is
\* released, then the handle is freed
Released(w, h, kinds) ==
    [k \in ResourceKinds |->
        IF k \in kinds /\ w.handles[h][FieldOf[k]] THEN w.res[k] \ {h} ELSE w.res[k]]

\* display_hal_deinit / touch_hal_deinit: a HAL object that is released is
\* no longer a started one
HalReleased(w, h, kinds) ==
    [k \in DOMAIN w.hal_started |->
        IF k \in kinds /\ w.handles[h][FieldOf[k]]
          THEN w.hal_started[k] \ {h} ELSE w.hal_started[k]]

LvDeinit(w, h) ==
    IF h = NULL THEN w
    ELSE
      LET w1 == DeleteTickTimer(LvStop(w, h).w)
      IN [w1 EXCEPT !.res = Released(w, h, ResourceKinds),
                    !.hal_started = HalReleased(w1, h, ResourceKinds),
                    !.live = @ \ {h},
                    !.handles[h] = ZeroHandle]

\* ---- lvgl_tab5_init ----------------------------------------------------
\* The steps of lvgl_tab5_init that can fail, in the order the code runs them
InitSteps == <<"calloc", "mutex", "display_hal", "touch_hal", "buffers",
               "draw_buffer", "display", "touchpad", "timer">>

StepIndexOf ==
    [step \in {InitSteps[i] : i \in 1..Len(InitSteps)} |->
        CHOOSE i \in 1..Len(InitSteps) : InitSteps[i] = step]

StepIndex(step) == StepIndexOf[step]

NoFault == [step |-> "none", status |-> ESP_OK, b1 |-> TRUE, b2 |-> TRUE]

\* What the environment can make fail inside one lvgl_tab5_init call: the
\* step, the status a HAL or esp_timer_create returns, and for the frame
\* buffers which of the two allocations succeed
InitFaults ==
    {NoFault}
    \cup {[step |-> s, status |-> ESP_ERR_NO_MEM, b1 |-> TRUE, b2 |-> TRUE] :
            s \in {"calloc", "mutex", "draw_buffer"}}
    \cup {[step |-> s, status |-> e, b1 |-> TRUE, b2 |-> TRUE] :
            s \in {"display_hal", "touch_hal", "timer"}, e \in HalErrors}
    \cup {[step |-> s, status |-> ESP_FAIL, b1 |-> TRUE, b2 |-> TRUE] :
            s \in {"display", "touchpad"}}
    \cup {[step |-> "buffers", status |-> ESP_ERR_NO_MEM, b1 |-> x, b2 |-> y] :
            x \in BOOLEAN, y \in BOOLEAN}

\* The fault that takes effect: a buffer fault needs an allocation that is
\* attempted and fails, and esp_timer_create fails when no timer is left
EffFault(w, cfg, f) ==
    LET g == IF f.step = "buffers" /\ f.b1 /\ (f.b2 \/ ~cfg.enable_double_buffer)
               THEN NoFault ELSE f
    IN IF g.step = "none" /\ FreeTimers(w) = {}
         THEN [step |-> "timer", status |-> ESP_ERR_NO_MEM, b1 |-> TRUE, b2 |-> TRUE]
         ELSE g

\* The status lvgl_tab5_init returns for the failing step
InitStatus(g) ==
    CASE g.step = "none" -> ESP_OK
      [] g.step \in {"calloc", "mutex", "buffers", "draw_buffer"} -> ESP_ERR_NO_MEM
      [] g.step \in {"display_hal", "touch_hal", "timer"} -> g.status
      [] g.step \in {"display", "touchpad"} -> ESP_FAIL

\* cleanup: label of lvgl_tab5_init
InitCleanup_NoUnwind(w, h) == [w |-> w, handle |-> NULL]

InitCleanup(w, h) == [w |-> LvDeinit(w, h), handle |-> NULL]

LvInit(w, outValid, cfg, f) ==
    IF ~outValid
      THEN [w |-> w, ret |-> ESP_ERR_INVALID_ARG, handle |-> NULL, h |-> NULL,
            fault |-> NoFault]
    ELSE IF f.step = "calloc" \/ FreeHandles(w) = {}
      THEN [w |-> w, ret |-> ESP_ERR_NO_MEM, handle |-> NULL, h |-> NULL,
            fault |-> [NoFault EXCEPT !.step = "calloc", !.status = ESP_ERR_NO_MEM]]
    ELSE
      LET h == Min(FreeHandles(w))
          g == EffFault(w, cfg, f)
          k == IF g.step = "none" THEN Len(InitSteps) + 1 ELSE StepIndex(g.step)
          done(step) == StepIndex(step) < k
          b1 == done("buffers") \/ (g.step = "buffers" /\ g.b1)
          b2 == cfg.enable_double_buffer
                /\ (done("buffers") \/ (g.step = "buffers" /\ g.b2))
          t == IF done("timer") THEN Min(FreeTimers(w)) ELSE NULL
          rec == [ZeroHandle EXCEPT
                    !.enable_double_buffer = cfg.enable_double_buffer,
                    !.enable_ppa_acceleration = cfg.enable_ppa_acceleration,
                    !.lvgl_mutex = done("mutex"),
                    !.display_hal = done("display_hal"),
                    !.touch_hal = done("touch_hal"),
                    !.buffer1 = b1,
                    !.buffer2 = b2,
                    !.draw_buffer = done("draw_buffer"),
                    !.display = done("display"),
                    !.touchpad = done("touchpad"),
                    !.initialized = (g.step = "none")]
          add(S, c) == IF c THEN S \cup {h} ELSE S
          w1 == [w EXCEPT
                    !.live = @ \cup {h},
                    !.handles[h] = rec,
                    !.res["mutex"] = add(@, rec.lvgl_mutex),
                    !.res["display_hal"] = add(@, rec.display_hal),
                    !.res["touch_hal"] = add(@, rec.touch_hal),
                    !.res["buffer1"] = add(@, rec.buffer1),
                    !.res["buffer2"] = add(@, rec.buffer2),
                    !.res["draw_buffer"] = add(@, rec.draw_buffer)]
          w2 == IF t = NULL THEN w1
                ELSE [w1 EXCEPT
                        !.timers[t] = [live |-> TRUE, running |-> FALSE, arg |-> h],
                        !.tick_timer = t]
          c == InitCleanup(w2, h)
      IN IF g.step = "none"
           THEN [w |-> w2, ret |-> ESP_OK, handle |-> h, h |-> h, fault |-> g]
           ELSE [w |-> c.w, ret |-> InitStatus(g), handle |-> c.handle, h |-> h,
                 fault |-> g]

\* ---- lvgl_tab5_start ---------------------------------------------------
StartSteps == <<"display_start", "touch_start", "timer_start", "task">>

NoStartFault == [step |-> "none", status |-> ESP_OK]

StartFaults ==
    {NoStartFault}
    \cup {[step |-> s, status |-> e] :
            s \in {"display_start", "touch_start", "timer_start"}, e \in HalErrors}
    \cup {[step |-> "task", status |-> ESP_ERR_NO_MEM]}

\* esp_timer_start_periodic: a null timer is an invalid argument, an armed
\* timer an invalid state
TimerStartStatus(w, f) ==
    LET t == w.tick_timer
    IN IF t = NULL THEN ESP_ERR_INVALID_ARG
       ELSE IF w.timers[t].running THEN ESP_ERR_INVALID_STATE
       ELSE IF f.step = "timer_start" THEN f.status
       ELSE ESP_OK

\* What one lvgl_tab5_start call did besides returning a status: the line it
\* returned at, and whether it reached the ready callback of lines 343-346
StartOutcome(w, ret, at) ==
    [w |-> w, ret |-> ret, at |-> at, ready |-> at = "done"]

\* lines 334-338: xTaskCreatePinnedToCore did not return pdPASS
TaskCreateFailed_TimerLeftArmed(w, t) ==
    StartOutcome(w, ESP_ERR_NO_MEM, "task")

TaskCreateFailed(w, t) ==
    StartOutcome([w EXCEPT !.timers[t].running = FALSE], ESP_ERR_NO_MEM, "task")

LvStart(w, h, f) ==
    IF h = NULL \/ ~w.handles[h].initialized
      THEN StartOutcome(w, ESP_ERR_INVALID_STATE, "guard")
    ELSE IF w.handles[h].started THEN StartOutcome(w, ESP_OK, "already")
    ELSE IF f.step = "display_start" THEN StartOutcome(w, f.status, "display_start")
    ELSE
      LET w1 == [w EXCEPT !.hal_started["display_hal"] = @ \cup {h}]
      IN IF f.step = "touch_start" THEN StartOutcome(w1, f.status, "touch_start")
         ELSE
           LET w2 == [w1 EXCEPT !.hal_started["touch_hal"] = @ \cup {h}]
               ts == TimerStartStatus(w2, f)
               t == w2.tick_timer
           IN IF ts # ESP_OK THEN StartOutcome(w2, ts, "timer_start")
              ELSE
                LET w3 == [w2 EXCEPT !.timers[t].running = TRUE]
                IN IF f.step = "task"
                     THEN TaskCreateFailed(w3, t)
                     ELSE StartOutcome([w3 EXCEPT !.tasks = @ \cup {h},
                                                  !.handles[h].lvgl_task = TRUE,
                                                  !.handles[h].started = TRUE],
                                       ESP_OK, "done")

\* lvgl_tab5_is_ready
LvIsReady_WithoutStarted(w, h) == h # NULL /\ w.handles[h].initialized

LvIsReady(w, h) == h # NULL /\ w.handles[h].initialized /\ w.handles[h].started

\* ------------------------------------------------------------------------
\* The application of SpecLvgl: it keeps each handle lvgl_tab5_init gave it
\* in a variable of its own and clears the variable when it deinitializes
\* the handle (as LVGLTab5duino::begin / end do)
\* ------------------------------------------------------------------------
Slots == {"a", "b"}

OutsideLvgl == UNCHANGED <<ctlVars, lockVars, flushVars, touchVars, hal_faults>>

\* the timers that exist
LiveTimers(w) == {t \in TimerIds : w.timers[t].live}

\* One lvgl_tab5_* call of the application: what it was given, what it
\* returned, the fault that took effect in it, the timers that existed when
\* it was made
LvCall(op, ret, s, h, f) ==
    [op |-> op, ret |-> ret, slot |-> s, h |-> h, fault |-> f,
     timers |-> LiveTimers(lv)]

LvNoCall == [op |-> "none", ret |-> ESP_OK, slot |-> "a", h |-> NULL,
             fault |-> NoFault, timers |-> {}]

LvInitState ==
    /\ lv = LvWorldInit
    /\ app_handle = [s \in Slots |-> NULL]
    /\ lv_last = LvNoCall

AppInit(s, cfg, f) ==
    /\ lv_last.op = "none"
    /\ app_handle[s] = NULL
    /\ LET r == LvInit(lv, TRUE, cfg, f)
       IN /\ lv' = r.w
          /\ app_handle' = [app_handle EXCEPT ![s] = r.handle]
          /\ lv_last' = LvCall("init", r.ret, s, r.h, r.fault)
    /\ OutsideLvgl

AppStart(s, f) ==
    /\ lv_last.op = "none"
    /\ LET r == LvStart(lv, app_handle[s], f)
       IN /\ lv' = r.w
          /\ lv_last' = LvCall("start", r.ret, s, app_handle[s],
                                [step |-> r.at, status |-> r.ret, ready |-> r.ready])
    /\ UNCHANGED app_handle
    /\ OutsideLvgl

AppStop(s) ==
    /\ lv_last.op = "none"
    /\ LET r == LvStop(lv, app_handle[s])
       IN /\ lv' = r.w
          /\ lv_last' = LvCall("stop", r.ret, s, app_handle[s], NoFault)
    /\ UNCHANGED app_handle
    /\ OutsideLvgl

AppDeinit(s) ==
    /\ lv_last.op = "none"
    /\ lv' = LvDeinit(lv, app_handle[s])
    /\ app_handle' = [app_handle EXCEPT ![s] = NULL]
    /\ lv_last' = LvCall("deinit", ESP_OK, s, app_handle[s], NoFault)
    /\ OutsideLvgl

\* the application has looked at what the call returned
AppReturn ==
    /\ lv_last.op # "none"
    /\ lv_last' = LvNoCall
    /\ UNCHANGED <<lv, app_handle>>
    /\ OutsideLvgl

\* ========================================================================
\* Framework controller: Tab5duino.cpp
\* ========================================================================

\* tab5_subsystem_state_t
TAB5_SUBSYSTEM_UNINITIALIZED == 0
TAB5_SUBSYSTEM_INITIALIZING == 1
TAB5_SUBSYSTEM_READY == 2
TAB5_SUBSYSTEM_ERROR == 3

\* tab5_subsystem_t
TAB5_SUBSYSTEM_DISPLAY == 0
TAB5_SUBSYSTEM_TOUCH == 1
TAB5_SUBSYSTEM_IMU == 2
TAB5_SUBSYSTEM_AUDIO == 3
TAB5_SUBSYSTEM_POWER == 4
TAB5_SUBSYSTEM_USB == 5
TAB5_SUBSYSTEM_WIFI == 6
TAB5_SUBSYSTEM_LVGL == 7
TAB5_SUBSYSTEM_COUNT == 8

Subsystems == 0..(TAB5_SUBSYSTEM_COUNT - 1)
SubsystemStates == {TAB5_SUBSYSTEM_UNINITIALIZED, TAB5_SUBSYSTEM_INITIALIZING,
                    TAB5_SUBSYSTEM_READY, TAB5_SUBSYSTEM_ERROR}

\* The subsystem ids the control path passes to the subsystem entry points:
\* one that tab5duino_init brings up by default, one it brings up on a flag
\* that is off by default, the graphics engine, and the out-of-range id
\* TAB5_SUBSYSTEM_COUNT
SubsystemArgs == {TAB5_SUBSYSTEM_DISPLAY, TAB5_SUBSYSTEM_AUDIO,
                  TAB5_SUBSYSTEM_LVGL, TAB5_SUBSYSTEM_COUNT}

\* tab5duino_config_t: the flags the controller reads (the loop task's stack
\* size, priority and core are only handed on to xTaskCreatePinnedToCore)
ZeroConfig ==
    [auto_init_display |-> FALSE, auto_init_touch |-> FALSE,
     auto_init_imu |-> FALSE, auto_init_audio |-> FALSE,
     auto_init_lvgl |-> FALSE, enable_psram |-> FALSE,
     enable_usb_serial |-> FALSE]

TAB5DUINO_CONFIG_DEFAULT ==
    [auto_init_display |-> TRUE, auto_init_touch |-> TRUE,
     auto_init_imu |-> TRUE, auto_init_audio |-> FALSE,
     auto_init_lvgl |-> TRUE, enable_psram |-> TRUE,
     enable_usb_serial |-> TRUE]

\* The arguments tab5duino_init is called with: NULL, or one of these
ConfigChoices ==
    {[TAB5DUINO_CONFIG_DEFAULT EXCEPT !.auto_init_display = FALSE],
     [TAB5DUINO_CONFIG_DEFAULT EXCEPT !.auto_init_touch = FALSE,
                                      !.auto_init_audio = TRUE],
     [TAB5DUINO_CONFIG_DEFAULT EXCEPT !.auto_init_lvgl = FALSE,
                                      !.enable_usb_serial = FALSE]}

ConfigArgs == {[null |-> TRUE, cfg |-> ZeroConfig]}
              \cup {[null |-> FALSE, cfg |-> c] : c \in ConfigChoices}

\* What esp_timer_get_time() can return when tab5duino_init reads it
TimerValues == 1..MaxTime

\* The handle xTaskCreatePinnedToCore stores for the loop task
LoopTaskHandle == NULL + 1

ZeroStates == [s \in Subsystems |-> TAB5_SUBSYSTEM_UNINITIALIZED]

\* One invocation of a user hook: which hook, and for on_subsystem_error its
\* arguments; state is what tab5duino_get_subsystem_state returns for the
\* subsystem while the hook runs
HookCall_StateNotYetSet(hook, s, err, st) ==
    [hook |-> hook, subsystem |-> s, error |-> err,
     state |-> TAB5_SUBSYSTEM_INITIALIZING]

HookCall(hook, s, err, st) ==
    [hook |-> hook, subsystem |-> s, error |-> err, state |-> st]

\* One invocation of on_framework_init / on_framework_ready, with what the
\* instance holds while the hook runs: framework_initialized and
\* loop_task_handle
FrameworkHook_FlagNotYetSet(hook, initialized, handle) ==
    [hook |-> hook, framework_initialized |-> FALSE, loop_task_handle |-> handle]

FrameworkHook_TaskNotYetCreated(hook, initialized, handle) ==
    [hook |-> hook, framework_initialized |-> initialized, loop_task_handle |-> NULL]

FrameworkHook(hook, initialized, handle) ==
    [hook |-> hook, framework_initialized |-> initialized, loop_task_handle |-> handle]

\* live: the number of loop tasks that exist
NoTask == [pc |-> "none", setup_calls |-> 0, loop_calls |-> 0, live |-> 0]

Idle == [pc |-> "idle", op |-> "none", idx |-> 0, sub |-> TAB5_SUBSYSTEM_COUNT]

PENDING == "PENDING"

NoCall == [op |-> "none", ret |-> ESP_OK, arg |-> TAB5_SUBSYSTEM_COUNT]

Returned(op, ret, arg) == [op |-> op, ret |-> ret, arg |-> arg]

NoOrder == [init |-> <<>>, deinit |-> <<>>, after_init |-> FALSE]

CtlInitState ==
    /\ config = ZeroConfig
    /\ subsystem_states = ZeroStates
    /\ loop_task_handle = NULL
    /\ framework_initialized = FALSE
    /\ user_setup_called = FALSE
    /\ boot_time_us = 0
    /\ lvgl_handle = NULL
    /\ usb_installed = FALSE
    /\ ctl = Idle
    /\ last = NoCall
    /\ hooks = <<>>
    /\ order = NoOrder
    /\ main_task = NoTask

\* ---- init_hardware_subsystems: the order and the flag of each step -----
InitOrder_LvglFirst ==
    <<TAB5_SUBSYSTEM_LVGL, TAB5_SUBSYSTEM_DISPLAY, TAB5_SUBSYSTEM_TOUCH,
      TAB5_SUBSYSTEM_IMU, TAB5_SUBSYSTEM_AUDIO, TAB5_SUBSYSTEM_POWER>>

InitOrder == <<TAB5_SUBSYSTEM_DISPLAY, TAB5_SUBSYSTEM_TOUCH, TAB5_SUBSYSTEM_IMU,
               TAB5_SUBSYSTEM_AUDIO, TAB5_SUBSYSTEM_POWER, TAB5_SUBSYSTEM_LVGL>>

AutoInit_AudioAlways(cfg, s) ==
    CASE s = TAB5_SUBSYSTEM_DISPLAY -> cfg.auto_init_display
      [] s = TAB5_SUBSYSTEM_TOUCH -> cfg.auto_init_touch
      [] s = TAB5_SUBSYSTEM_IMU -> cfg.auto_init_imu
      [] s = TAB5_SUBSYSTEM_AUDIO -> TRUE
      [] s = TAB5_SUBSYSTEM_POWER -> TRUE
      [] s = TAB5_SUBSYSTEM_LVGL -> cfg.auto_init_lvgl

AutoInit(cfg, s) ==
    CASE s = TAB5_SUBSYSTEM_DISPLAY -> cfg.auto_init_display
      [] s = TAB5_SUBSYSTEM_TOUCH -> cfg.auto_init_touch
      [] s = TAB5_SUBSYSTEM_IMU -> cfg.auto_init_imu
      [] s = TAB5_SUBSYSTEM_AUDIO -> cfg.auto_init_audio
      [] s = TAB5_SUBSYSTEM_POWER -> TRUE
      [] s = TAB5_SUBSYSTEM_LVGL -> cfg.auto_init_lvgl

AbortsOn_Never(ret) == FALSE

\* What init_hardware_subsystems does with the status of one bring-up:
\* TRUE when it returns that status at once
AbortsOn(ret) == ret # ESP_OK

\* ---- tab5duino_get_subsystem_state / tab5duino_is_ready ----------------
tab5duino_get_subsystem_state(s) ==
    IF s >= TAB5_SUBSYSTEM_COUNT THEN TAB5_SUBSYSTEM_ERROR
    ELSE subsystem_states[s]

tab5duino_is_ready ==
    framework_initialized /\ user_setup_called /\ loop_task_handle # NULL

\* ---- the bring-up tab5duino_init_subsystem dispatches to ---------------
\* Subsystems 0..6: the HAL call of the case is commented out in the source
\* and ret stays ESP_OK. HalBringUp is the status of that HAL call once it is
\* there: under hal_faults it may fail
HalBringUp(faults) == IF faults THEN {ESP_OK, ESP_FAIL} ELSE {ESP_OK}

\* What the environment makes fail inside the engine bring-up of the
\* controller: nothing, a frame buffer allocation of lvgl_tab5_init, the
\* creation of the engine task in lvgl_tab5_start
LvglFaults ==
    {[init |-> NoFault, start |-> NoStartFault],
     [init |-> [NoFault EXCEPT !.step = "buffers", !.status = ESP_ERR_NO_MEM,
                               !.b1 = FALSE],
      start |-> NoStartFault],
     [init |-> NoFault, start |-> [step |-> "task", status |-> ESP_ERR_NO_MEM]]}

\* case TAB5_SUBSYSTEM_LVGL: lvgl_tab5_init, then lvgl_tab5_start, then the
\* on_lvgl_ready hook
LvglBringUp(w, f, sf) ==
    LET r1 == LvInit(w, TRUE, LVGL_TAB5_CONFIG_DEFAULT, f)
        r2 == LvStart(r1.w, r1.handle, sf)
    IN IF r1.ret # ESP_OK
         THEN [w |-> r1.w, ret |-> r1.ret, handle |-> r1.handle, hook |-> FALSE]
         ELSE [w |-> r2.w, ret |-> r2.ret, handle |-> r1.handle,
               hook |-> (r2.ret = ESP_OK)]

\* The state tab5duino_init_subsystem records for the status of the bring-up
StateFor_StaysInitializing(ret) ==
    IF ret = ESP_OK THEN TAB5_SUBSYSTEM_READY ELSE TAB5_SUBSYSTEM_INITIALIZING

StateFor(ret) ==
    IF ret = ESP_OK THEN TAB5_SUBSYSTEM_READY ELSE TAB5_SUBSYSTEM_ERROR

\* ---- deinit_hardware_subsystems ----------------------------------------
RECURSIVE Descending(_)
Descending(n) == IF n = 0 THEN <<>> ELSE <<n - 1>> \o Descending(n - 1)

RECURSIVE Ascending(_)
Ascending(n) == IF n = 0 THEN <<>> ELSE Ascending(n - 1) \o <<n - 1>>

DeinitLoop_Ascending == Ascending(TAB5_SUBSYSTEM_COUNT)

\* for (int i = TAB5_SUBSYSTEM_COUNT - 1; i >= 0; i--)
DeinitLoop == Descending(TAB5_SUBSYSTEM_COUNT)

\* the subsystems the loop hands to tab5duino_deinit_subsystem, in order
DeinitSequence(states) ==
    LET up(s) == states[s] # TAB5_SUBSYSTEM_UNINITIALIZED
    IN SelectSeq(DeinitLoop, up)

\* ------------------------------------------------------------------------
\* Controller entry points. They are called from one control path (ctl), a
\* call at a time; tab5duino_init and tab5duino_init_subsystem take several
\* steps, so that what the tasks running beside them can observe in the
\* middle of a call is a state of the model. last holds what a call returned
\* until the caller has taken it (CallReturn); hooks holds the hooks the
\* call invoked.
\* ------------------------------------------------------------------------
OutsideController ==
    UNCHANGED <<app_handle, lv_last, lockVars, flushVars, touchVars, hal_faults>>

CanCall == ctl.pc = "idle" /\ last.op = "none"

\* order.after_init: the call before this one was tab5duino_init
OtherCall(o) == [o EXCEPT !.after_init = FALSE]

\* tab5duino_init_subsystem, line 238: the subsystem is taken as initialized
\* already and the call returns ESP_OK at once
AlreadyInitialized_OnlyReady(st) == st = TAB5_SUBSYSTEM_READY

AlreadyInitialized(st) == st # TAB5_SUBSYSTEM_UNINITIALIZED

\* tab5duino_deinit_subsystem on a valid id: the states it leaves
Deinitialized_KeepsError(states, s) ==
    IF states[s] = TAB5_SUBSYSTEM_ERROR THEN states
    ELSE [states EXCEPT ![s] = TAB5_SUBSYSTEM_UNINITIALIZED]

Deinitialized(states, s) ==
    IF states[s] = TAB5_SUBSYSTEM_UNINITIALIZED THEN states
    ELSE [states EXCEPT ![s] = TAB5_SUBSYSTEM_UNINITIALIZED]

\* tab5duino_init up to the call of init_hardware_subsystems
InitCall(a) ==
    /\ CanCall
    /\ IF framework_initialized
         THEN /\ last' = Returned("init", ESP_OK, TAB5_SUBSYSTEM_COUNT)
              /\ order' = [order EXCEPT !.after_init = TRUE]
              /\ UNCHANGED <<config, subsystem_states, boot_time_us,
                             usb_installed, ctl>>
         ELSE \E usbOk \in BOOLEAN, t \in TimerValues :
              LET cfg == IF a.null THEN TAB5DUINO_CONFIG_DEFAULT ELSE a.cfg
              IN /\ config' = cfg
                 /\ boot_time_us' = t
                 /\ subsystem_states' = ZeroStates
                 /\ usb_installed' = (usb_installed \/ (cfg.enable_usb_serial /\ usbOk))
                 /\ ctl' = [pc |-> "hw", op |-> "init", idx |-> 1,
                            sub |-> TAB5_SUBSYSTEM_COUNT]
                 /\ last' = Returned("init", PENDING, TAB5_SUBSYSTEM_COUNT)
                 /\ order' = [order EXCEPT !.init = <<>>, !.after_init = TRUE]
    /\ UNCHANGED <<loop_task_handle, framework_initialized, user_setup_called,
                   lvgl_handle, hooks, main_task, lv>>
    /\ OutsideController

\* init_hardware_subsystems: a subsystem whose flag is off is passed over
InitSkip ==
    /\ ctl.pc = "hw"
    /\ ctl.idx <= Len(InitOrder)
    /\ ~AutoInit(config, InitOrder[ctl.idx])
    /\ ctl' = [ctl EXCEPT !.idx = @ + 1]
    /\ UNCHANGED <<config, subsystem_states, loop_task_handle, framework_initialized,
                   user_setup_called, boot_time_us, lvgl_handle, usb_installed,
                   last, hooks, order, main_task, lv>>
    /\ OutsideController

\* init_hardware_subsystems calls tab5duino_init_subsystem: lines 234-244
InitBringUp ==
    /\ ctl.pc = "hw"
    /\ ctl.idx <= Len(InitOrder)
    /\ AutoInit(config, InitOrder[ctl.idx])
    /\ LET s == InitOrder[ctl.idx]
       IN IF AlreadyInitialized(subsystem_states[s])
            THEN /\ ctl' = [ctl EXCEPT !.idx = @ + 1]
                 /\ UNCHANGED <<subsystem_states, order>>
            ELSE /\ subsystem_states' =
                       [subsystem_states EXCEPT ![s] = TAB5_SUBSYSTEM_INITIALIZING]
                 /\ ctl' = [ctl EXCEPT !.pc = "dispatch", !.sub = s]
                 /\ order' = [order EXCEPT !.init = Append(@, s)]
    /\ UNCHANGED <<config, loop_task_handle, framework_initialized,
                   user_setup_called, boot_time_us, lvgl_handle, usb_installed,
                   last, hooks, main_task, lv>>
    /\ OutsideController

\* tab5duino_init after init_hardware_subsystems returned ESP_OK
InitFinish ==
    /\ ctl.pc = "hw"
    /\ ctl.idx > Len(InitOrder)
    /\ framework_initialized' = TRUE
    /\ hooks' = Append(hooks, FrameworkHook("on_framework_init",
                                            framework_initialized', loop_task_handle))
    /\ ctl' = Idle
    /\ last' = [last EXCEPT !.ret = ESP_OK]
    /\ UNCHANGED <<config, subsystem_states, loop_task_handle, user_setup_called,
                   boot_time_us, lvgl_handle, usb_installed, order,
                   main_task, lv>>
    /\ OutsideController

\* tab5duino_init_subsystem called by the control path itself
InitSubsystemCall(s) ==
    /\ CanCall
    /\ IF s >= TAB5_SUBSYSTEM_COUNT
         THEN /\ last' = Returned("init_subsystem", ESP_ERR_INVALID_ARG, s)
              /\ UNCHANGED <<subsystem_states, ctl>>
         ELSE IF AlreadyInitialized(subsystem_states[s])
           THEN /\ last' = Returned("init_subsystem", ESP_OK, s)
                /\ UNCHANGED <<subsystem_states, ctl>>
           ELSE /\ subsystem_states' =
                      [subsystem_states EXCEPT ![s] = TAB5_SUBSYSTEM_INITIALIZING]
                /\ ctl' = [pc |-> "dispatch", op |-> "init_subsystem", idx |-> 0,
                           sub |-> s]
                /\ last' = Returned("init_subsystem", PENDING, s)
    /\ order' = OtherCall(order)
    /\ UNCHANGED <<config, loop_task_handle, framework_initialized,
                   user_setup_called, boot_time_us, lvgl_handle, usb_installed,
                   hooks, main_task, lv>>
    /\ OutsideController

\* tab5duino_init_subsystem from the switch to its return (lines 246-317),
\* and what its caller does with the status
Dispatched(b) ==
    LET s == ctl.sub
        st == StateFor(b.ret)
        ready == IF b.hook
                   THEN <<HookCall("on_lvgl_ready", s, ESP_OK, subsystem_states[s])>>
                   ELSE <<>>
        error == IF b.ret # ESP_OK
                   THEN <<HookCall("on_subsystem_error", s, b.ret, st)>>
                   ELSE <<>>
    IN /\ lv' = b.w
       /\ lvgl_handle' = b.handle
       /\ subsystem_states' = [subsystem_states EXCEPT ![s] = st]
       /\ hooks' = hooks \o ready \o error
       /\ IF ctl.op = "init" /\ ~AbortsOn(b.ret)
            THEN /\ ctl' = [ctl EXCEPT !.pc = "hw", !.idx = @ + 1,
                                       !.sub = TAB5_SUBSYSTEM_COUNT]
                 /\ UNCHANGED last
            ELSE /\ ctl' = Idle
                 /\ last' = [last EXCEPT !.ret = b.ret]

Dispatch ==
    /\ ctl.pc = "dispatch"
    /\ IF ctl.sub = TAB5_SUBSYSTEM_LVGL
         THEN \E f \in LvglFaults :
                 Dispatched(LvglBringUp(lv, f.init, f.start))
         ELSE \E hal \in HalBringUp(hal_faults) :
                 Dispatched([w |-> lv, ret |-> hal, handle |-> lvgl_handle,
                             hook |-> FALSE])
    /\ UNCHANGED <<config, loop_task_handle, framework_initialized,
                   user_setup_called, boot_time_us, usb_installed, order,
                   main_task>>
    /\ OutsideController

\* tab5duino_deinit_subsystem called by the control path itself
DeinitSubsystemCall(s) ==
    /\ CanCall
    /\ IF s >= TAB5_SUBSYSTEM_COUNT
         THEN /\ last' = Returned("deinit_subsystem", ESP_ERR_INVALID_ARG, s)
              /\ UNCHANGED subsystem_states
         ELSE /\ last' = Returned("deinit_subsystem", ESP_OK, s)
              /\ subsystem_states' = Deinitialized(subsystem_states, s)
    /\ order' = OtherCall(order)
    /\ UNCHANGED <<config, loop_task_handle, framework_initialized,
                   user_setup_called, boot_time_us, lvgl_handle, usb_installed,
                   ctl, hooks, main_task, lv>>
    /\ OutsideController

\* tab5duino_start gets as far as xTaskCreatePinnedToCore: lines 110-118
StartCreates_WithoutInit(initialized, handle) == handle = NULL

StartCreates_WithTaskRunning(initialized, handle) == initialized

StartCreates(initialized, handle) == initialized /\ handle = NULL

StartStatus_OkOnFailure(initialized, handle, created) ==
    IF ~initialized THEN ESP_ERR_INVALID_STATE ELSE ESP_OK

\* the status tab5duino_start returns; created: xTaskCreatePinnedToCore
\* returned pdPASS
StartStatus(initialized, handle, created) ==
    IF ~initialized THEN ESP_ERR_INVALID_STATE
    ELSE IF handle # NULL THEN ESP_OK
    ELSE IF ~created THEN ESP_ERR_NO_MEM
    ELSE ESP_OK

\* tab5duino_start
StartCall ==
    /\ CanCall
    /\ \E created \in BOOLEAN :
          /\ IF StartCreates(framework_initialized, loop_task_handle) /\ created
               THEN /\ main_task' = [NoTask EXCEPT !.pc = "setup",
                                                  !.live = main_task.live + 1]
                    /\ loop_task_handle' = LoopTaskHandle
                    /\ hooks' = Append(hooks,
                                   FrameworkHook("on_framework_ready",
                                                 framework_initialized,
                                                 loop_task_handle'))
               ELSE UNCHANGED <<loop_task_handle, main_task, hooks>>
          /\ last' = Returned("start",
                              StartStatus(framework_initialized, loop_task_handle, created),
                              TAB5_SUBSYSTEM_COUNT)
    /\ order' = OtherCall(order)
    /\ UNCHANGED <<config, subsystem_states, framework_initialized,
                   user_setup_called, boot_time_us, lvgl_handle, usb_installed,
                   ctl, lv>>
    /\ OutsideController

\* vTaskDelete(loop_task_handle): the task the handle names is gone
TaskDeleted(t, handle) ==
    IF handle # NULL THEN [NoTask EXCEPT !.live = t.live - 1] ELSE t

\* tab5duino_stop
StopCall ==
    /\ CanCall
    /\ main_task' = TaskDeleted(main_task, loop_task_handle)
    /\ loop_task_handle' = NULL
    /\ last' = Returned("stop", ESP_OK, TAB5_SUBSYSTEM_COUNT)
    /\ order' = OtherCall(order)
    /\ UNCHANGED <<config, subsystem_states, framework_initialized,
                   user_setup_called, boot_time_us, lvgl_handle, usb_installed,
                   ctl, hooks, lv>>
    /\ OutsideController

\* tab5duino_deinit: stop, deinit_hardware_subsystems, the USB-serial driver,
\* memset of the instance
DeinitCall ==
    /\ CanCall
    /\ order' = [init |-> <<>>, deinit |-> DeinitSequence(subsystem_states),
                 after_init |-> FALSE]
    /\ usb_installed' = (usb_installed /\ ~config.enable_usb_serial)
    /\ config' = ZeroConfig
    /\ subsystem_states' = ZeroStates
    /\ loop_task_handle' = NULL
    /\ framework_initialized' = FALSE
    /\ user_setup_called' = FALSE
    /\ boot_time_us' = 0
    /\ main_task' = TaskDeleted(main_task, loop_task_handle)
    /\ last' = Returned("deinit", ESP_OK, TAB5_SUBSYSTEM_COUNT)
    /\ UNCHANGED <<lvgl_handle, ctl, hooks, lv>>
    /\ OutsideController

\* the control path has taken what the call returned
CallReturn ==
    /\ ctl.pc = "idle"
    /\ last.op # "none"
    /\ last' = NoCall
    /\ hooks' = <<>>
    /\ order' = [order EXCEPT !.deinit = <<>>]
    /\ UNCHANGED <<config, subsystem_states, loop_task_handle, framework_initialized,
                   user_setup_called, boot_time_us, lvgl_handle, usb_installed,
                   ctl, main_task, lv>>
    /\ OutsideController

\* ---- loop_task ---------------------------------------------------------
TaskUnchanged ==
    UNCHANGED <<config, subsystem_states, loop_task_handle, framework_initialized,
                boot_time_us, lvgl_handle, usb_installed, ctl, last, hooks,
                order, lv>>

\* setup();
TaskSetup ==
    /\ main_task.pc = "setup"
    /\ main_task' = [main_task EXCEPT !.pc = "flag", !.setup_calls = @ + 1]
    /\ UNCHANGED user_setup_called
    /\ TaskUnchanged
    /\ OutsideController

\* g_tab5duino_instance.user_setup_called = true;
TaskSetFlag ==
    /\ main_task.pc = "flag"
    /\ main_task' = [main_task EXCEPT !.pc = "loop"]
    /\ user_setup_called' = TRUE
    /\ TaskUnchanged
    /\ OutsideController

\* loop(); taskYIELD();
TaskLoop ==
    /\ main_task.pc = "loop"
    /\ main_task.loop_calls < MaxLoops
    /\ main_task' = [main_task EXCEPT !.loop_calls = @ + 1]
    /\ UNCHANGED user_setup_called
    /\ TaskUnchanged
    /\ OutsideController

\* ========================================================================
\* The render lock: lvgl_tab5_lock / lvgl_tab5_unlock and lvgl_task
\* ========================================================================
EngineTask == "engine"
UserTasks == {"u1", "u2"}
HelperTask == "helper"
LockTasks == {EngineTask, HelperTask} \cup UserTasks
NoTaskHolds == "none"

\* FreeRTOS: portMAX_DELAY, (TickType_t)0xffffffff, as the 32-bit two's
\* complement number it is, and pdMS_TO_TICKS
portMAX_DELAY == -1
configTICK_RATE_HZ == 100
pdMS_TO_TICKS(ms) == (ms * configTICK_RATE_HZ) \div 1000

\* The timeouts (ms) user tasks pass to lvgl_tab5_lock
TimeoutsMs == {0, 5, portMAX_DELAY} \cup {10 * k : k \in 1..MaxTicks}

\* line 435: the ticks xSemaphoreTake is given
TimeoutTicks(ms) == IF ms = portMAX_DELAY THEN portMAX_DELAY ELSE pdMS_TO_TICKS(ms)

\* What a user task's last lvgl_tab5_lock call was given (ms, and whether
\* another task held the mutex when it was made), what it returned, and the
\* ticks it spent blocked
LockResult(ms, busy, result) ==
    [ms |-> ms, busy |-> busy, result |-> result, waited |-> 0]

NoLockCall == LockResult(0, FALSE, "none")

\* What the lock protects: the screens lv_obj_create(NULL) has made, the
\* screen that is loaded (0 is the default screen of the display), and
\* whether the loaded screen is marked for redrawing
RenderInit == [screens |-> 0, active |-> 0, invalid |-> FALSE]

\* lv_timer_handler redraws what is marked
lv_timer_handler(r) == [r EXCEPT !.invalid = FALSE]

LockInitState ==
    /\ mutex_holder = NoTaskHolds
    /\ tpc = [t \in LockTasks |-> IF t = EngineTask THEN "take" ELSE "idle"]
    /\ twait = [t \in LockTasks |-> 0]
    /\ tres = [t \in LockTasks |-> NoLockCall]
    /\ engine = [frame_count |-> 0, fps_average |-> 0]
    /\ render = RenderInit

\* xSemaphoreTake finds the mutex free
MutexAvailable_Always(holder) == TRUE

MutexAvailable(holder) == holder = NoTaskHolds

OutsideLock == UNCHANGED <<lvVars, ctlVars, flushVars, touchVars, hal_faults>>

\* a task holds the mutex
Busy == mutex_holder # NoTaskHolds

\* The handle the tasks share, and what lvgl_tab5_lock is given for it
LockHandle == Min(HandleIds)
LockHandleArgs == {NULL, LockHandle}

\* lvgl_tab5_lock(handle, ms) up to the point where xSemaphoreTake returns
\* or blocks
LockCall(t, h, ms) ==
    /\ tpc[t] = "idle"
    /\ IF h = NULL
         THEN /\ tres' = [tres EXCEPT ![t] = LockResult(ms, FALSE, "false")]
              /\ UNCHANGED <<mutex_holder, tpc, twait>>
         ELSE IF MutexAvailable(mutex_holder)
           THEN /\ mutex_holder' = t
                /\ tpc' = [tpc EXCEPT ![t] = "locked"]
                /\ tres' = [tres EXCEPT ![t] = LockResult(ms, Busy, "true")]
                /\ UNCHANGED twait
           ELSE IF TimeoutTicks(ms) = 0
             THEN /\ tres' = [tres EXCEPT ![t] = LockResult(ms, Busy, "false")]
                  /\ UNCHANGED <<mutex_holder, tpc, twait>>
             ELSE /\ tpc' = [tpc EXCEPT ![t] = "blocked"]
                  /\ twait' = [twait EXCEPT ![t] = TimeoutTicks(ms)]
                  /\ tres' = [tres EXCEPT ![t] = LockResult(ms, Busy, "pending")]
                  /\ UNCHANGED mutex_holder
    /\ UNCHANGED <<engine, render>>
    /\ OutsideLock

\* a blocked xSemaphoreTake gets the mutex
LockAcquire(t) ==
    /\ tpc[t] = "blocked"
    /\ MutexAvailable(mutex_holder)
    /\ mutex_holder' = t
    /\ tpc' = [tpc EXCEPT ![t] = "locked"]
    /\ tres' = [tres EXCEPT ![t].result = "true"]
    /\ UNCHANGED <<twait, engine, render>>
    /\ OutsideLock

\* a blocked xSemaphoreTake runs out of ticks
LockTimeout(t) ==
    /\ tpc[t] = "blocked"
    /\ twait[t] = 0
    /\ ~MutexAvailable(mutex_holder)
    /\ tpc' = [tpc EXCEPT ![t] = "idle"]
    /\ tres' = [tres EXCEPT ![t].result = "false"]
    /\ UNCHANGED <<mutex_holder, twait, engine, render>>
    /\ OutsideLock

\* the tick interrupt
LockTick ==
    /\ \E t \in UserTasks : tpc[t] = "blocked" /\ twait[t] > 0
    /\ \A t \in UserTasks : tpc[t] = "blocked" => twait[t] # 0
    /\ twait' = [t \in LockTasks |->
                   IF tpc[t] = "blocked" /\ twait[t] > 0 THEN twait[t] - 1 ELSE twait[t]]
    /\ tres' = [t \in LockTasks |->
                   IF tpc[t] = "blocked" /\ twait[t] > 0
                     THEN [tres[t] EXCEPT !.waited = @ + 1] ELSE tres[t]]
    /\ UNCHANGED <<mutex_holder, tpc, engine, render>>
    /\ OutsideLock

\* xSemaphoreGive by the task that holds the mutex
xSemaphoreGive_NoEffect(holder) == holder

xSemaphoreGive(holder) == NoTaskHolds

\* lvgl_tab5_unlock by the task that took the lock
UnlockCall(t) ==
    /\ tpc[t] = "locked"
    /\ mutex_holder' = xSemaphoreGive(mutex_holder)
    /\ tpc' = [tpc EXCEPT ![t] = "idle"]
    /\ UNCHANGED <<twait, tres, engine, render>>
    /\ OutsideLock

\* lvgl_task: xSemaphoreTake(handle->context.lvgl_mutex, portMAX_DELAY)
EngineTake ==
    /\ tpc[EngineTask] = "take"
    /\ MutexAvailable(mutex_holder)
    /\ mutex_holder' = EngineTask
    /\ tpc' = [tpc EXCEPT ![EngineTask] = "handler"]
    /\ UNCHANGED <<twait, tres, engine, render>>
    /\ OutsideLock

\* lines 458-464: frame_count++, and once a second has passed since
\* last_perf_time the count moves into the uint16_t fps_average
PerfCounters(e, second_over) ==
    IF second_over
      THEN [frame_count |-> 0, fps_average |-> (e.frame_count + 1) % 65536]
      ELSE [e EXCEPT !.frame_count = @ + 1]

\* lvgl_task: lv_timer_handler() and the performance counters; at most
\* MaxFrames frames are counted in one second
EngineHandler ==
    /\ tpc[EngineTask] = "handler"
    /\ \E second_over \in BOOLEAN :
          /\ second_over \/ engine.frame_count < MaxFrames
          /\ engine' = PerfCounters(engine, second_over)
    /\ render' = lv_timer_handler(render)
    /\ tpc' = [tpc EXCEPT ![EngineTask] = "give"]
    /\ UNCHANGED <<mutex_holder, twait, tres>>
    /\ OutsideLock

\* lvgl_task: xSemaphoreGive
EngineGive ==
    /\ tpc[EngineTask] = "give"
    /\ mutex_holder' = xSemaphoreGive(mutex_holder)
    /\ tpc' = [tpc EXCEPT ![EngineTask] = "delay"]
    /\ UNCHANGED <<twait, tres, engine, render>>
    /\ OutsideLock

\* lvgl_task: vTaskDelay(pdMS_TO_TICKS(task_delay)) is over
EngineDelay ==
    /\ tpc[EngineTask] = "delay"
    /\ tpc' = [tpc EXCEPT ![EngineTask] = "take"]
    /\ UNCHANGED <<mutex_holder, twait, tres, engine, render>>
    /\ OutsideLock

\* lvgl_tab5_stop on the started handle, called by a task other than the
\* engine task: vTaskDelete(handle->context.lvgl_task) takes the engine task
\* away wherever it is; a FreeRTOS mutex is not given back by the deletion
\* of the task that holds it
EngineStop ==
    /\ tpc[EngineTask] # "deleted"
    /\ tpc' = [tpc EXCEPT ![EngineTask] = "deleted"]
    /\ UNCHANGED <<mutex_holder, twait, tres, engine, render>>
    /\ OutsideLock

\* lvgl_tab5_start on the stopped handle: a new lvgl_task starts at the top
\* of its loop
EngineStart ==
    /\ tpc[EngineTask] = "deleted"
    /\ tpc' = [tpc EXCEPT ![EngineTask] = "take"]
    /\ UNCHANGED <<mutex_holder, twait, tres, engine, render>>
    /\ OutsideLock

\* ------------------------------------------------------------------------
\* lvgl_tab5_refresh_display, lvgl_tab5_create_screen, lvgl_tab5_load_screen
\* called by one task beside the engine task
\* ------------------------------------------------------------------------
MaxScreens == 2

HelperOps == {"refresh_display", "create_screen", "load_screen"}

\* the timeout the three helpers give lvgl_tab5_lock
HELPER_LOCK_TIMEOUT_MS == 1000

\* One helper call: what it was given, what it returned ("pending" until it
\* returns), whether its lvgl_tab5_lock returned true, and whether it has
\* run the LVGL call it is about
HelperCallRec(op, h, screen, ret) ==
    [op |-> op, h |-> h, screen |-> screen, ret |-> ret,
     locked |-> FALSE, changed |-> FALSE]

\* The early returns before lvgl_tab5_lock is called ("none": no early return)
HelperGuard(op, h, screen) ==
    CASE op = "refresh_display" -> IF h = NULL THEN ESP_ERR_INVALID_STATE ELSE "none"
      [] op = "create_screen" -> IF h = NULL THEN "NULL" ELSE "none"
      [] op = "load_screen" ->
            IF h = NULL \/ screen = NULL THEN ESP_ERR_INVALID_ARG ELSE "none"

\* What a helper returns when lvgl_tab5_lock returned false
HelperLockFailed_Silent(op) == ESP_OK

HelperLockFailed(op) == IF op = "create_screen" THEN "NULL" ELSE ESP_ERR_TIMEOUT

\* The LVGL call each helper makes between lock and unlock, and what the
\* helper returns after it
HelperEffect(op, screen, r) ==
    CASE op = "refresh_display" -> [r EXCEPT !.invalid = TRUE]
      [] op = "create_screen" -> [r EXCEPT !.screens = @ + 1]
      [] op = "load_screen" -> [r EXCEPT !.active = screen, !.invalid = TRUE]

\* ("lv_obj": the pointer to the screen just created, which is not null)
HelperResult(op, r) == IF op = "create_screen" THEN "lv_obj" ELSE ESP_OK

\* the screens a caller can pass to lvgl_tab5_load_screen
ScreenArgs == {NULL} \cup (1..render.screens)

HelperCall(op, h, screen) ==
    /\ tpc[HelperTask] = "idle"
    /\ op = "create_screen" => render.screens < MaxScreens
    /\ LET g == HelperGuard(op, h, screen)
           call == HelperCallRec(op, h, screen, "pending")
       IN IF g # "none"
            THEN /\ tres' = [tres EXCEPT ![HelperTask] = [call EXCEPT !.ret = g]]
                 /\ tpc' = [tpc EXCEPT ![HelperTask] = "returned"]
                 /\ UNCHANGED <<mutex_holder, twait>>
            ELSE IF MutexAvailable(mutex_holder)
              THEN /\ mutex_holder' = HelperTask
                   /\ tpc' = [tpc EXCEPT ![HelperTask] = "body"]
                   /\ tres' = [tres EXCEPT ![HelperTask] = [call EXCEPT !.locked = TRUE]]
                   /\ UNCHANGED twait
              ELSE /\ tpc' = [tpc EXCEPT ![HelperTask] = "blocked"]
                   /\ twait' = [twait EXCEPT
                                  ![HelperTask] = TimeoutTicks(HELPER_LOCK_TIMEOUT_MS)]
                   /\ tres' = [tres EXCEPT ![HelperTask] = call]
                   /\ UNCHANGED mutex_holder
    /\ UNCHANGED <<engine, render>>
    /\ OutsideLock

\* the blocked xSemaphoreTake of the helper gets the mutex
HelperAcquire ==
    /\ tpc[HelperTask] = "blocked"
    /\ MutexAvailable(mutex_holder)
    /\ mutex_holder' = HelperTask
    /\ tpc' = [tpc EXCEPT ![HelperTask] = "body"]
    /\ tres' = [tres EXCEPT ![HelperTask].locked = TRUE]
    /\ UNCHANGED <<twait, engine, render>>
    /\ OutsideLock

\* the tick interrupt while the helper is blocked
HelperTick ==
    /\ tpc[HelperTask] = "blocked"
    /\ twait[HelperTask] > 0
    /\ twait' = [twait EXCEPT ![HelperTask] = @ - 1]
    /\ UNCHANGED <<mutex_holder, tpc, tres, engine, render>>
    /\ OutsideLock

\* lvgl_tab5_lock returns false: the helper returns without the LVGL call
HelperTimeout ==
    /\ tpc[HelperTask] = "blocked"
    /\ twait[HelperTask] = 0
    /\ ~MutexAvailable(mutex_holder)
    /\ tpc' = [tpc EXCEPT ![HelperTask] = "returned"]
    /\ tres' = [tres EXCEPT ![HelperTask].ret = HelperLockFailed(tres[HelperTask].op)]
    /\ UNCHANGED <<mutex_holder, twait, engine, render>>
    /\ OutsideLock

\* lv_obj_invalidate(lv_scr_act()) / lv_obj_create(NULL) / lv_scr_load(screen)
HelperBody ==
    /\ tpc[HelperTask] = "body"
    /\ render' = HelperEffect(tres[HelperTask].op, tres[HelperTask].screen, render)
    /\ tres' = [tres EXCEPT ![HelperTask].changed = TRUE]
    /\ tpc' = [tpc EXCEPT ![HelperTask] = "unlock"]
    /\ UNCHANGED <<mutex_holder, twait, engine>>
    /\ OutsideLock

\* lvgl_tab5_unlock(handle) and the return that follows it
HelperUnlock ==
    /\ tpc[HelperTask] = "unlock"
    /\ mutex_holder' = xSemaphoreGive(mutex_holder)
    /\ tpc' = [tpc EXCEPT ![HelperTask] = "returned"]
    /\ tres' = [tres EXCEPT ![HelperTask].ret = HelperResult(tres[HelperTask].op, render)]
    /\ UNCHANGED <<twait, engine, render>>
    /\ OutsideLock

\* the caller has looked at what the helper returned
HelperReturn ==
    /\ tpc[HelperTask] = "returned"
    /\ tpc' = [tpc EXCEPT ![HelperTask] = "idle"]
    /\ tres' = [tres EXCEPT ![HelperTask] = NoLockCall]
    /\ UNCHANGED <<mutex_holder, twait, engine, render>>
    /\ OutsideLock

\* ------------------------------------------------------------------------
\* A task that holds the mutex calls lvgl_tab5_lock or a helper again
\* ------------------------------------------------------------------------
\* the tasks that make such calls: a caller of lvgl_tab5_lock, and the
\* engine task from a callback lv_timer_handler runs
NestTasks == {EngineTask, "u1"}

NestOps == {"lock"} \cup HelperOps

\* where a task holds the mutex
HoldsAt(t) == IF t = EngineTask THEN "handler" ELSE "locked"

\* a mutex made by xSemaphoreCreateRecursiveMutex can be taken again by the
\* task that holds it
MutexAvailableTo_Recursive(holder, t) == holder \in {NoTaskHolds, t}

\* line 149: xSemaphoreCreateMutex, and lines 435 and 453: xSemaphoreTake -
\* the mutex is available to no task while any task holds it
MutexAvailableTo(holder, t) == MutexAvailable(holder)

\* the timeout of the inner lvgl_tab5_lock
NestTimeout(op, ms) == IF op = "lock" THEN ms ELSE HELPER_LOCK_TIMEOUT_MS

\* One inner call: what it was given, what it returned, the ticks it spent
\* blocked, whether it ran its LVGL call, and where its caller goes on
NestCallRec(t, op, ms, screen) ==
    [op |-> op, ms |-> NestTimeout(op, ms), screen |-> screen, ret |-> "pending",
     waited |-> 0, changed |-> FALSE, outer |-> HoldsAt(t)]

\* what the inner call returns when xSemaphoreTake returned pdFALSE / pdTRUE
NestFailed(op) == IF op = "lock" THEN "false" ELSE HelperLockFailed(op)
NestDone(op, r) == IF op = "lock" THEN "true" ELSE HelperResult(op, r)

NestedCall(t, op, ms, screen) ==
    /\ tpc[t] = HoldsAt(t)
    /\ mutex_holder = t
    /\ ms # portMAX_DELAY
    /\ op # "lock" => HelperGuard(op, LockHandle, screen) = "none"
    /\ LET call == NestCallRec(t, op, ms, screen)
       IN IF MutexAvailableTo(mutex_holder, t)
            THEN /\ tpc' = [tpc EXCEPT ![t] = "nested_done"]
                 /\ tres' = [tres EXCEPT ![t] = [call EXCEPT !.ret = NestDone(op, render),
                                                              !.changed = op # "lock"]]
                 /\ render' = IF op = "lock" THEN render ELSE HelperEffect(op, screen, render)
                 /\ mutex_holder' = IF op = "lock" THEN t ELSE xSemaphoreGive(mutex_holder)
                 /\ UNCHANGED twait
            ELSE IF TimeoutTicks(call.ms) = 0
              THEN /\ tpc' = [tpc EXCEPT ![t] = "nested_done"]
                   /\ tres' = [tres EXCEPT ![t] = [call EXCEPT !.ret = NestFailed(op)]]
                   /\ UNCHANGED <<mutex_holder, twait, render>>
              ELSE /\ tpc' = [tpc EXCEPT ![t] = "nested"]
                   /\ twait' = [twait EXCEPT ![t] = TimeoutTicks(call.ms)]
                   /\ tres' = [tres EXCEPT ![t] = call]
                   /\ UNCHANGED <<mutex_holder, render>>
    /\ UNCHANGED engine
    /\ OutsideLock

\* the tick interrupt while the holder is blocked in its inner xSemaphoreTake
NestedTick ==
    /\ \E t \in NestTasks : tpc[t] = "nested" /\ twait[t] > 0
    /\ \A t \in UserTasks : tpc[t] = "blocked" => twait[t] # 0
    /\ twait' = [t \in LockTasks |->
                   IF tpc[t] \in {"blocked", "nested"} /\ twait[t] > 0
                     THEN twait[t] - 1 ELSE twait[t]]
    /\ tres' = [t \in LockTasks |->
                   IF tpc[t] \in {"blocked", "nested"} /\ twait[t] > 0
                     THEN [tres[t] EXCEPT !.waited = @ + 1] ELSE tres[t]]
    /\ UNCHANGED <<mutex_holder, tpc, engine, render>>
    /\ OutsideLock

\* the inner xSemaphoreTake runs out of ticks: lvgl_tab5_lock returns false,
\* a helper returns without its LVGL call and without lvgl_tab5_unlock
NestedTimeout(t) ==
    /\ tpc[t] = "nested"
    /\ twait[t] = 0
    /\ ~MutexAvailableTo(mutex_holder, t)
    /\ tpc' = [tpc EXCEPT ![t] = "nested_done"]
    /\ tres' = [tres EXCEPT ![t].ret = NestFailed(tres[t].op)]
    /\ UNCHANGED <<mutex_holder, twait, engine, render>>
    /\ OutsideLock

\* the caller goes on where it made the inner call
NestedReturn(t) ==
    /\ tpc[t] = "nested_done"
    /\ tpc' = [tpc EXCEPT ![t] = tres[t].outer]
    /\ tres' = [tres EXCEPT ![t] = NoLockCall]
    /\ UNCHANGED <<mutex_holder, twait, engine, render>>
    /\ OutsideLock

\* ========================================================================
\* display_flush_cb
\* ========================================================================
Uint16(n) == n % 65536

\* What one invocation is given: the handle in disp_drv->user_data, its
\* display HAL, the acceleration flag, the area, and the status
\* display_hal_ppa_blend returns when it is called
FlushInputs ==
    [handle : BOOLEAN, display_hal : BOOLEAN, enable_ppa_acceleration : BOOLEAN,
     blend : {ESP_OK} \cup HalErrors,
     x1 : 0..MaxCoord, y1 : 0..MaxCoord, x2 : 0..MaxCoord, y2 : 0..MaxCoord]

FlushReady == [fn |-> "lv_disp_flush_ready", width |-> 0, height |-> 0]

display_flush_cb_SilentOnMissingHal(in) ==
    LET width == Uint16(in.x2 - in.x1 + 1)
        height == Uint16(in.y2 - in.y1 + 1)
        blend == [fn |-> "display_hal_ppa_blend", width |-> width, height |-> height]
        draw == [fn |-> "display_hal_draw_bitmap", width |-> width, height |-> height]
    IN IF ~in.handle \/ ~in.display_hal THEN <<>>
       ELSE IF in.enable_ppa_acceleration
         THEN IF in.blend # ESP_OK THEN <<blend, draw, FlushReady>>
              ELSE <<blend, FlushReady>>
         ELSE <<draw, FlushReady>>

\* The calls one invocation makes, in order
display_flush_cb(in) ==
    LET width == Uint16(in.x2 - in.x1 + 1)
        height == Uint16(in.y2 - in.y1 + 1)
        blend == [fn |-> "display_hal_ppa_blend", width |-> width, height |-> height]
        draw == [fn |-> "display_hal_draw_bitmap", width |-> width, height |-> height]
    IN IF ~in.handle \/ ~in.display_hal THEN <<FlushReady>>
       ELSE IF in.enable_ppa_acceleration
         THEN IF in.blend # ESP_OK THEN <<blend, draw, FlushReady>>
              ELSE <<blend, FlushReady>>
         ELSE <<draw, FlushReady>>

FlushIdle ==
    [phase |-> "idle",
     in |-> [handle |-> FALSE, display_hal |-> FALSE, enable_ppa_acceleration |-> FALSE,
             blend |-> ESP_OK, x1 |-> 0, y1 |-> 0, x2 |-> 0, y2 |-> 0],
     calls |-> <<>>]

OutsideFlush == UNCHANGED <<lvVars, ctlVars, lockVars, touchVars, hal_faults>>

\* the engine invokes the callback
FlushInvoke ==
    /\ flush.phase = "idle"
    /\ flush' = [flush EXCEPT !.phase = "done", !.calls = display_flush_cb(flush.in)]
    /\ OutsideFlush

\* the engine has the next region to flush
FlushNext(in) ==
    /\ flush.phase = "done"
    /\ flush' = [phase |-> "idle", in |-> in, calls |-> <<>>]
    /\ OutsideFlush

\* ========================================================================
\* touchpad_read_cb
\* ========================================================================
TOUCH_COORD_MAX_X == 1280
TOUCH_COORD_MAX_Y == 720
TOUCH_PRESSURE_MAX == 255

LV_INDEV_STATE_REL == "LV_INDEV_STATE_REL"
LV_INDEV_STATE_PR == "LV_INDEV_STATE_PR"

\* touch_point_t, the fields the callback reads
TouchPoints ==
    [x : {0, TOUCH_COORD_MAX_X}, y : {0, TOUCH_COORD_MAX_Y},
     pressure : {0, TOUCH_PRESSURE_MAX}, is_valid : BOOLEAN]

RECURSIVE SeqsUpTo(_, _)
SeqsUpTo(S, n) ==
    IF n = 0 THEN {<<>>}
    ELSE LET shorter == SeqsUpTo(S, n - 1)
         IN shorter \cup {Append(q, e) : q \in {r \in shorter : Len(r) = n - 1}, e \in S}

\* What one invocation is given: the handle in indev_drv->user_data, its
\* touch HAL, and what touch_hal_read_points returns when it is called (its
\* status and the points it stored, point_count being their number)
TouchInputs ==
    [handle : BOOLEAN, touch_hal : BOOLEAN, ret : {ESP_OK} \cup HalErrors,
     points : SeqsUpTo(TouchPoints, MaxPoints)]

\* lv_coord_t (int16_t) from a uint16_t
LvCoord(n) == IF n % 65536 >= 32768 THEN (n % 65536) - 65536 ELSE n % 65536

touch_point_is_valid_IgnoresPressure(point) == point.is_valid

touch_point_is_valid(point) == point.is_valid /\ point.pressure > 0

\* the loop over points[0 .. point_count - 1], from index i on
RECURSIVE FirstValidFrom(_, _, _)
FirstValidFrom(points, i, data) ==
    IF i > Len(points) THEN [data EXCEPT !.state = LV_INDEV_STATE_REL]
    ELSE IF touch_point_is_valid(points[i])
      THEN [state |-> LV_INDEV_STATE_PR,
            x |-> LvCoord(points[i].x), y |-> LvCoord(points[i].y)]
      ELSE FirstValidFrom(points, i + 1, data)

\* The lv_indev_data_t the callback leaves
touchpad_read_cb(in, data) ==
    IF ~in.handle \/ ~in.touch_hal THEN [data EXCEPT !.state = LV_INDEV_STATE_REL]
    ELSE IF in.ret # ESP_OK \/ Len(in.points) = 0
      THEN [data EXCEPT !.state = LV_INDEV_STATE_REL]
      ELSE FirstValidFrom(in.points, 1, data)

\* the lv_indev_data_t the engine hands to the callback
TouchDataBlank == [state |-> LV_INDEV_STATE_REL, x |-> 0, y |-> 0]

TouchIdle ==
    [phase |-> "idle",
     in |-> [handle |-> FALSE, touch_hal |-> FALSE, ret |-> ESP_OK, points |-> <<>>],
     data |-> TouchDataBlank]

OutsideTouch == UNCHANGED <<lvVars, ctlVars, lockVars, flushVars, hal_faults>>

\* the engine's input device read invokes the callback
TouchRead ==
    /\ touch.phase = "idle"
    /\ touch' = [touch EXCEPT !.phase = "done",
                              !.data = touchpad_read_cb(touch.in, touch.data)]
    /\ OutsideTouch

\* ========================================================================
\* Specifications
\* ========================================================================
InitLvgl ==
    /\ LvInitState
    /\ CtlInitState
    /\ LockInitState
    /\ flush = FlushIdle
    /\ touch = TouchIdle
    /\ hal_faults = FALSE

NextLvgl ==
    \/ \E s \in Slots, cfg \in LvConfigs, f \in InitFaults :
          AppInit(s, cfg, f)
    \/ \E s \in Slots, f \in StartFaults :
          AppStart(s, f)
    \/ \E s \in Slots : AppStop(s)
    \/ \E s \in Slots : AppDeinit(s)
    \/ AppReturn

SpecLvgl == InitLvgl /\ [][NextLvgl]_vars

Init == InitLvgl

Next ==
    \/ \E a \in ConfigArgs : InitCall(a)
    \/ InitSkip
    \/ InitBringUp
    \/ InitFinish
    \/ Dispatch
    \/ \E s \in SubsystemArgs : InitSubsystemCall(s)
    \/ \E s \in SubsystemArgs : DeinitSubsystemCall(s)
    \/ StartCall
    \/ StopCall
    \/ DeinitCall
    \/ TaskSetup
    \/ TaskSetFlag
    \/ TaskLoop
    \/ CallReturn

Spec == Init /\ [][Next]_vars

\* The life cycle alone: tab5duino_init, start, stop and deinit from the
\* control path, and the loop task
NextLive ==
    \/ \E a \in ConfigArgs : InitCall(a)
    \/ InitSkip
    \/ InitBringUp
    \/ InitFinish
    \/ Dispatch
    \/ StartCall
    \/ StopCall
    \/ DeinitCall
    \/ TaskSetup
    \/ TaskSetFlag
    \/ TaskLoop
    \/ CallReturn

\* The scheduler runs a ready loop task: setup() is called and returns, the
\* flag is set, loop() is called
SpecLive ==
    /\ Init
    /\ [][NextLive]_vars
    /\ WF_vars(TaskSetup)
    /\ WF_vars(TaskSetFlag)
    /\ WF_vars(TaskLoop)

\* ---- tab5duino_stop and tab5duino_deinit called by the loop task --------
\* setup() or loop() calls tab5duino_stop (or tab5duino_deinit, whose first
\* statement is tab5duino_stop()): loop_task_handle names the calling task,
\* and vTaskDelete of the calling task does not return, so line 149 and all
\* that follows the call is never executed. main_task.pc keeps the call the
\* task was deleted in.
SelfCalls == {"in_stop", "in_deinit"}

TaskStopsItself(call) ==
    /\ main_task.pc \in {"setup", "loop"}
    /\ loop_task_handle # NULL
    /\ main_task' = [main_task EXCEPT
                        !.pc = call,
                        !.setup_calls = IF main_task.pc = "setup" THEN @ + 1 ELSE @,
                        !.live = @ - 1]
    /\ UNCHANGED user_setup_called
    /\ TaskUnchanged
    /\ OutsideController

\* The life cycle with a loop task that may stop the framework itself; the
\* control path leaves the handle of a deleted task alone
NextSelf ==
    \/ \E a \in ConfigArgs : InitCall(a)
    \/ InitSkip
    \/ InitBringUp
    \/ InitFinish
    \/ Dispatch
    \/ StartCall
    \/ main_task.pc \notin SelfCalls /\ StopCall
    \/ main_task.pc \notin SelfCalls /\ DeinitCall
    \/ TaskSetup
    \/ TaskSetFlag
    \/ TaskLoop
    \/ CallReturn
    \/ \E call \in SelfCalls : TaskStopsItself(call)

SpecSelf == Init /\ [][NextSelf]_vars

\* The controller with the HAL calls of the placeholder subsystems in place
InitFault ==
    /\ LvInitState
    /\ CtlInitState
    /\ LockInitState
    /\ flush = FlushIdle
    /\ touch = TouchIdle
    /\ hal_faults = TRUE

SpecFault == InitFault /\ [][Next]_vars

NextLock ==
    \/ \E t \in UserTasks, h \in LockHandleArgs, ms \in TimeoutsMs : LockCall(t, h, ms)
    \/ \E t \in UserTasks : LockAcquire(t)
    \/ \E t \in UserTasks : LockTimeout(t)
    \/ \E t \in UserTasks : UnlockCall(t)
    \/ LockTick
    \/ EngineTake
    \/ EngineHandler
    \/ EngineGive
    \/ EngineDelay

SpecLock == InitLvgl /\ [][NextLock]_vars

NextHelper ==
    \/ \E op \in HelperOps, h \in LockHandleArgs, screen \in ScreenArgs :
          HelperCall(op, h, screen)
    \/ HelperAcquire
    \/ HelperTick
    \/ HelperTimeout
    \/ HelperBody
    \/ HelperUnlock
    \/ HelperReturn
    \/ EngineTake
    \/ EngineHandler
    \/ EngineGive
    \/ EngineDelay

SpecHelper == InitLvgl /\ [][NextHelper]_vars

\* the task that calls lvgl_tab5_lock beside the engine being stopped and
\* started again
CancelTasks == {"u1"}

NextCancel ==
    \/ \E t \in CancelTasks, h \in LockHandleArgs, ms \in TimeoutsMs : LockCall(t, h, ms)
    \/ \E t \in CancelTasks : LockAcquire(t)
    \/ \E t \in CancelTasks : LockTimeout(t)
    \/ \E t \in CancelTasks : UnlockCall(t)
    \/ LockTick
    \/ EngineTake
    \/ EngineHandler
    \/ EngineGive
    \/ EngineDelay
    \/ EngineStop
    \/ EngineStart

SpecCancel == InitLvgl /\ [][NextCancel]_vars

\* the tasks of NestTasks calling lvgl_tab5_lock and the helpers while they
\* hold the mutex; the outer lvgl_tab5_lock of the user task waits forever
NextNested ==
    \/ \E t \in CancelTasks : LockCall(t, LockHandle, portMAX_DELAY)
    \/ \E t \in CancelTasks : LockAcquire(t)
    \/ \E t \in CancelTasks : UnlockCall(t)
    \/ EngineTake
    \/ EngineHandler
    \/ EngineGive
    \/ EngineDelay
    \/ \E t \in NestTasks, op \in NestOps, ms \in TimeoutsMs, screen \in 1..MaxScreens :
          NestedCall(t, op, ms, screen)
    \/ NestedTick
    \/ \E t \in NestTasks : NestedTimeout(t)
    \/ \E t \in NestTasks : NestedReturn(t)

SpecNested == InitLvgl /\ [][NextNested]_vars

\* The engine task of one started handle and user tasks that call
\* lvgl_tab5_lock(handle, portMAX_DELAY) and lvgl_tab5_unlock
NextFair ==
    \/ \E t \in UserTasks : LockCall(t, LockHandle, portMAX_DELAY)
    \/ \E t \in UserTasks : LockAcquire(t)
    \/ \E t \in UserTasks : UnlockCall(t)
    \/ EngineTake
    \/ EngineHandler
    \/ EngineGive
    \/ EngineDelay

\* The scheduler runs every task that stays ready: a blocked xSemaphoreTake
\* returns if the mutex stays free, a task that holds the lock unlocks, and
\* the engine task takes each step of its loop. xSemaphoreGive readies a
\* waiting task but does not hand the mutex to it, so no more than this holds
\* of a waiting task.
SpecFair ==
    /\ InitLvgl
    /\ [][NextFair]_vars
    /\ \A t \in UserTasks : WF_vars(LockAcquire(t))
    /\ \A t \in UserTasks : WF_vars(UnlockCall(t))
    /\ WF_vars(EngineTake)
    /\ WF_vars(EngineHandler)
    /\ WF_vars(EngineGive)
    /\ WF_vars(EngineDelay)

InitFlush ==
    /\ LvInitState
    /\ CtlInitState
    /\ LockInitState
    /\ \E in \in FlushInputs : flush = [phase |-> "idle", in |-> in, calls |-> <<>>]
    /\ touch = TouchIdle
    /\ hal_faults = FALSE

NextFlush ==
    \/ FlushInvoke
    \/ \E in \in FlushInputs : FlushNext(in)

SpecFlush == InitFlush /\ [][NextFlush]_vars

InitTouch ==
    /\ LvInitState
    /\ CtlInitState
    /\ LockInitState
    /\ flush = FlushIdle
    /\ \E in \in TouchInputs : touch = [phase |-> "idle", in |-> in, data |-> TouchDataBlank]
    /\ hal_faults = FALSE

NextTouch == TouchRead

SpecTouch == InitTouch /\ [][NextTouch]_vars

\* ========================================================================
\* Properties
\* ========================================================================

\* ---- C1 ----------------------------------------------------------------
\* The tasks that are between a successful take of the mutex and their give
LockHolders ==
    {t \in UserTasks : tpc[t] = "locked"}
    \cup {t \in {EngineTask} : tpc[t] \in {"handler", "give"}}

\* C1: the render lock of one handle is mutually exclusive - the engine task
\* and the callers of lvgl_tab5_lock never hold it two at a time - and a
\* lvgl_tab5_lock(handle, 0) made while another task holds the lock returns
\* false at once: it never blocks and spends no tick waiting.
C1_RenderLockExclusive ==
    /\ Cardinality(LockHolders) <= 1
    /\ \A t \in UserTasks :
          (tres[t].result # "none" /\ tres[t].ms = 0 /\ tres[t].busy)
             => /\ tres[t].result = "false"
                /\ tres[t].waited = 0
                /\ tpc[t] = "idle"

\* a lock call with timeout 0 has failed while the engine task was inside
\* its processing step, and another user task is blocked on the same lock
C1_Witness ==
    \E t \in UserTasks, u \in UserTasks :
        /\ t # u
        /\ tres[t] = [ms |-> 0, busy |-> TRUE, result |-> "false", waited |-> 0]
        /\ mutex_holder = EngineTask
        /\ tpc[EngineTask] = "give"
        /\ tpc[u] = "blocked"

\* ---- C2 ----------------------------------------------------------------
\* C2: inside tab5duino_init the LVGL subsystem is not attempted (it does not
\* become INITIALIZING) and does not become READY while the display or the
\* touch subsystem is still UNINITIALIZED: each of the two has reached READY
\* or ERROR first, for every configuration.
C2_LvglAfterDisplayAndTouch ==
    [][(/\ ctl.op = "init"
        /\ subsystem_states'[TAB5_SUBSYSTEM_LVGL] # subsystem_states[TAB5_SUBSYSTEM_LVGL]
        /\ subsystem_states'[TAB5_SUBSYSTEM_LVGL]
              \in {TAB5_SUBSYSTEM_INITIALIZING, TAB5_SUBSYSTEM_READY})
          => \A s \in {TAB5_SUBSYSTEM_DISPLAY, TAB5_SUBSYSTEM_TOUCH} :
                subsystem_states[s] \in {TAB5_SUBSYSTEM_READY, TAB5_SUBSYSTEM_ERROR}]_vars

\* ---- C3 ----------------------------------------------------------------
\* C3: a tab5duino_init call that follows a tab5duino_init call leaves the
\* subsystem states, the boot timestamp and the configuration as the first
\* call left them, and installs or allocates nothing: the USB-serial driver,
\* the engine handles and tasks are as they were, and no bring-up starts.
C3_SecondInitChangesNothing ==
    [][(CanCall /\ order.after_init /\ last'.op = "init")
          => /\ subsystem_states' = subsystem_states
             /\ boot_time_us' = boot_time_us
             /\ config' = config
             /\ usb_installed' = usb_installed
             /\ lv' = lv
             /\ ctl' = ctl
             /\ hooks' = <<>>]_vars

\* ---- C4 ----------------------------------------------------------------
Reverse(seq) == [i \in 1..Len(seq) |-> seq[Len(seq) + 1 - i]]

Range(seq) == {seq[i] : i \in 1..Len(seq)}

\* the subsystems of seq that are up in the current state
StillUp(seq) ==
    LET up(s) == subsystem_states[s] # TAB5_SUBSYSTEM_UNINITIALIZED
    IN SelectSeq(seq, up)

\* the teardowns of a tab5duino_deinit, those of the subsystems tab5duino_init
\* had brought up
OfInit(seq, init) ==
    LET mine(s) == s \in Range(init)
    IN SelectSeq(seq, mine)

\* C4: tab5duino_deinit tears down the subsystems tab5duino_init brought up
\* in exactly the reverse of the order of their bring-up, and when it returns
\* every subsystem state is UNINITIALIZED and config, loop_task_handle,
\* framework_initialized, user_setup_called and boot_time_us are zero.
C4_DeinitReversesInit ==
    [][(CanCall /\ last'.op = "deinit")
          => /\ OfInit(order'.deinit, order.init) = Reverse(StillUp(order.init))
             /\ \A s \in Subsystems :
                   subsystem_states[s] # TAB5_SUBSYSTEM_UNINITIALIZED
                      => s \in Range(order'.deinit)
             /\ subsystem_states' = ZeroStates
             /\ config' = ZeroConfig
             /\ loop_task_handle' = NULL
             /\ ~framework_initialized'
             /\ ~user_setup_called'
             /\ boot_time_us' = 0]_vars

\* tab5duino_deinit has returned after tearing down LVGL, power, IMU, touch
\* and display, in that order, which a default tab5duino_init had brought up
C4_Witness ==
    /\ last.op = "deinit"
    /\ order.deinit = <<TAB5_SUBSYSTEM_LVGL, TAB5_SUBSYSTEM_POWER, TAB5_SUBSYSTEM_IMU,
                        TAB5_SUBSYSTEM_TOUCH, TAB5_SUBSYSTEM_DISPLAY>>
    /\ subsystem_states = ZeroStates
    /\ boot_time_us = 0

\* ---- C5 ----------------------------------------------------------------
\* tab5duino_init_subsystem is in progress for subsystem s
InInitSubsystem(s) == ctl.pc = "dispatch" /\ ctl.sub = s

\* C5: every subsystem's state is one of UNINITIALIZED, INITIALIZING, READY,
\* ERROR, and tab5duino_get_subsystem_state returns INITIALIZING for a
\* subsystem only while a tab5duino_init_subsystem call is in progress for it.
C5_InitializingIsTransient ==
    \A s \in Subsystems :
       /\ subsystem_states[s] \in SubsystemStates
       /\ tab5duino_get_subsystem_state(s) = TAB5_SUBSYSTEM_INITIALIZING
             => InInitSubsystem(s)

\* a failed bring-up of LVGL has returned to its caller and left it in ERROR
\* beside a READY display
C5_Witness ==
    /\ ctl.pc = "idle"
    /\ last.op = "init_subsystem"
    /\ last.arg = TAB5_SUBSYSTEM_LVGL
    /\ last.ret = ESP_ERR_NO_MEM
    /\ tab5duino_get_subsystem_state(TAB5_SUBSYSTEM_LVGL) = TAB5_SUBSYSTEM_ERROR
    /\ tab5duino_get_subsystem_state(TAB5_SUBSYSTEM_DISPLAY) = TAB5_SUBSYSTEM_READY

\* ---- C6 ----------------------------------------------------------------
\* C6: a subsystem's state changes only UNINITIALIZED -> INITIALIZING and
\* INITIALIZING -> READY or ERROR, both inside tab5duino_init_subsystem, and
\* READY or ERROR -> UNINITIALIZED, through tab5duino_deinit_subsystem (called
\* directly or by tab5duino_deinit) and through no other entry point.
C6_TransitionsByEntryPointsOnly ==
    [][\A s \in Subsystems :
          subsystem_states'[s] # subsystem_states[s]
             => \/ /\ subsystem_states[s] = TAB5_SUBSYSTEM_UNINITIALIZED
                   /\ subsystem_states'[s] = TAB5_SUBSYSTEM_INITIALIZING
                   /\ ctl'.pc = "dispatch" /\ ctl'.sub = s
                \/ /\ subsystem_states[s] = TAB5_SUBSYSTEM_INITIALIZING
                   /\ subsystem_states'[s] \in {TAB5_SUBSYSTEM_READY, TAB5_SUBSYSTEM_ERROR}
                   /\ InInitSubsystem(s)
                \/ /\ subsystem_states[s] \in {TAB5_SUBSYSTEM_READY, TAB5_SUBSYSTEM_ERROR}
                   /\ subsystem_states'[s] = TAB5_SUBSYSTEM_UNINITIALIZED
                   /\ last'.op \in {"deinit_subsystem", "deinit"}]_vars

\* ---- C7 ----------------------------------------------------------------
\* C7: when the bring-up of a subsystem fails inside tab5duino_init, the
\* subsystem is left in ERROR, on_subsystem_error is invoked with it and the
\* failing status, and the sequence goes on: tab5duino_init does not return
\* before every subsystem whose flag is on (and power) has been attempted.
C7_FailureDoesNotAbortInit ==
    [][(ctl.op = "init" /\ ctl.pc = "dispatch"
        /\ subsystem_states'[ctl.sub] = TAB5_SUBSYSTEM_ERROR)
          => /\ \E i \in 1..Len(hooks') :
                   /\ hooks'[i].hook = "on_subsystem_error"
                   /\ hooks'[i].subsystem = ctl.sub
                   /\ hooks'[i].error # ESP_OK
             /\ ctl'.pc = "idle"
                   => \A i \in 1..Len(InitOrder) :
                         AutoInit(config, InitOrder[i])
                            => subsystem_states'[InitOrder[i]]
                                  # TAB5_SUBSYSTEM_UNINITIALIZED]_vars

\* ---- C10 ---------------------------------------------------------------
\* tab5duino_init has just completed an initialization (the call ran the
\* bring-up and invoked on_framework_init) and has not been taken yet
InitCompleted ==
    /\ ctl.pc = "idle"
    /\ last.op = "init"
    /\ last.ret = ESP_OK
    /\ hooks # <<>>
    /\ hooks[Len(hooks)].hook = "on_framework_init"

DefaultAutoEnabled ==
    {TAB5_SUBSYSTEM_DISPLAY, TAB5_SUBSYSTEM_TOUCH, TAB5_SUBSYSTEM_IMU,
     TAB5_SUBSYSTEM_POWER, TAB5_SUBSYSTEM_LVGL}

\* the loop task exists and has not yet returned from setup()
TaskInSetup == main_task.pc \in {"setup", "flag"}

\* C10: when tab5duino_init with the default configuration has succeeded,
\* display, touch, IMU, power and LVGL are READY and tab5duino_is_ready() is
\* false; the loop task created by tab5duino_start calls setup() once before
\* it loops, and, unless it is stopped, it gets to loop() and
\* tab5duino_is_ready() becomes true.
C10_InitStartReady ==
    /\ []((InitCompleted /\ config = TAB5DUINO_CONFIG_DEFAULT)
             => /\ \A s \in DefaultAutoEnabled :
                      tab5duino_get_subsystem_state(s) = TAB5_SUBSYSTEM_READY
                /\ ~tab5duino_is_ready)
    /\ [](main_task.pc = "loop" => main_task.setup_calls = 1 /\ user_setup_called)
    /\ [](main_task.pc \in {"none", "setup"} => main_task.loop_calls = 0)
    /\ (TaskInSetup ~> (main_task.pc = "loop" \/ loop_task_handle = NULL))
    /\ ((loop_task_handle # NULL /\ framework_initialized)
           ~> (tab5duino_is_ready \/ loop_task_handle = NULL))

\* after a default tab5duino_init and tab5duino_start the loop task has
\* called setup() once and loop(), and tab5duino_is_ready() is true
C10_Witness ==
    /\ config = TAB5DUINO_CONFIG_DEFAULT
    /\ \A s \in DefaultAutoEnabled : subsystem_states[s] = TAB5_SUBSYSTEM_READY
    /\ main_task.pc = "loop"
    /\ main_task.setup_calls = 1
    /\ main_task.loop_calls > 0
    /\ tab5duino_is_ready

\* ---- C8 ----------------------------------------------------------------
FlushReadyCount(calls) ==
    Cardinality({i \in 1..Len(calls) : calls[i].fn = "lv_disp_flush_ready"})

\* C8: every invocation of display_flush_cb calls lv_disp_flush_ready exactly
\* once, as its last call, whatever its inputs: handle or display HAL
\* missing, acceleration off, blend succeeding, blend failing and falling
\* back to the software draw.
C8_FlushReadyExactlyOnce ==
    flush.phase = "done"
       => /\ FlushReadyCount(flush.calls) = 1
          /\ flush.calls[Len(flush.calls)].fn = "lv_disp_flush_ready"

\* the accelerated blend failed, the software draw ran, then the signal
C8_Witness ==
    /\ flush.phase = "done"
    /\ flush.in.handle /\ flush.in.display_hal /\ flush.in.enable_ppa_acceleration
    /\ flush.in.blend # ESP_OK
    /\ Len(flush.calls) = 3
    /\ flush.calls[2].fn = "display_hal_draw_bitmap"

\* ---- C9 ----------------------------------------------------------------
\* The status the failing step of lvgl_tab5_init is to be reported with
C9_StatusOf(fault) ==
    IF fault.step \in {"calloc", "mutex", "buffers", "draw_buffer"}
      THEN ESP_ERR_NO_MEM
    ELSE IF fault.step \in {"display", "touchpad"} THEN ESP_FAIL
    ELSE fault.status

\* nothing of handle h is left in the heap
C9_NothingLeft(h) ==
    /\ h \notin lv.live
    /\ \A k \in ResourceKinds : h \notin lv.res[k]
    /\ h \notin lv.tasks
    /\ LiveTimers(lv) \subseteq lv_last.timers
    /\ lv.handles[h] = ZeroHandle

C11_Counts(points, i) == points[i].is_valid /\ points[i].pressure # 0

\* C11: with a handle and a touch HAL, touchpad_read_cb reports released when
\* touch_hal_read_points fails, stores no point, or stores only points that
\* do not count (is_valid false or pressure 0); otherwise it reports pressed
\* at the coordinates of the lowest-index point that counts, whatever the
\* later points are.
C11_FirstValidPointReported ==
    (touch.phase = "done" /\ touch.in.handle /\ touch.in.touch_hal)
       => LET pts == touch.in.points
              counting == {i \in 1..Len(pts) : C11_Counts(pts, i)}
          IN IF touch.in.ret # ESP_OK \/ counting = {}
               THEN touch.data.state = LV_INDEV_STATE_REL
               ELSE \E i \in counting :
                      /\ \A j \in counting : i <= j
                      /\ touch.data = [state |-> LV_INDEV_STATE_PR,
                                       x |-> pts[i].x, y |-> pts[i].y]

\* the HAL stored two points, the first marked valid with pressure 0 and the
\* second pressed at the far corner: the callback reported the second
C11_Witness ==
    /\ touch.phase = "done"
    /\ touch.in.handle /\ touch.in.touch_hal
    /\ touch.in.ret = ESP_OK
    /\ Len(touch.in.points) = 2
    /\ touch.in.points[1].is_valid /\ touch.in.points[1].pressure = 0
    /\ touch.in.points[2].is_valid /\ touch.in.points[2].pressure > 0
    /\ touch.in.points[2].x = TOUCH_COORD_MAX_X
    /\ touch.data = [state |-> LV_INDEV_STATE_PR,
                     x |-> TOUCH_COORD_MAX_X, y |-> touch.in.points[2].y]

\* ---- C12 ---------------------------------------------------------------
\* C12: the audio subsystem leaves UNINITIALIZED only inside a
\* tab5duino_init_subsystem(AUDIO) call made by the application or inside a
\* tab5duino_init whose configuration has auto_init_audio on; no other
\* controller operation moves it, and while it is UNINITIALIZED
\* tab5duino_get_subsystem_state(AUDIO) returns UNINITIALIZED, not ERROR.
C12_AudioStaysUninitialized ==
    /\ [](subsystem_states[TAB5_SUBSYSTEM_AUDIO] = TAB5_SUBSYSTEM_UNINITIALIZED
             => tab5duino_get_subsystem_state(TAB5_SUBSYSTEM_AUDIO)
                   = TAB5_SUBSYSTEM_UNINITIALIZED)
    /\ [][(/\ subsystem_states[TAB5_SUBSYSTEM_AUDIO] = TAB5_SUBSYSTEM_UNINITIALIZED
           /\ subsystem_states'[TAB5_SUBSYSTEM_AUDIO] # TAB5_SUBSYSTEM_UNINITIALIZED)
             => \/ /\ last'.op = "init_subsystem"
                   /\ last'.arg = TAB5_SUBSYSTEM_AUDIO
                \/ /\ last.op = "init"
                   /\ config.auto_init_audio]_vars

\* tab5duino_init with auto_init_audio off has succeeded, the loop task is
\* up, a direct bring-up of another subsystem has been made, and audio is
\* UNINITIALIZED
C12_Witness ==
    /\ framework_initialized
    /\ ~config.auto_init_audio
    /\ ~config.auto_init_display
    /\ loop_task_handle # NULL
    /\ last.op = "init_subsystem"
    /\ last.arg = TAB5_SUBSYSTEM_DISPLAY
    /\ subsystem_states[TAB5_SUBSYSTEM_DISPLAY] = TAB5_SUBSYSTEM_READY
    /\ subsystem_states[TAB5_SUBSYSTEM_POWER] = TAB5_SUBSYSTEM_READY
    /\ tab5duino_get_subsystem_state(TAB5_SUBSYSTEM_AUDIO) = TAB5_SUBSYSTEM_UNINITIALIZED

\* ---- C13 ---------------------------------------------------------------
\* the fields of g_tab5duino_instance
C13_Instance ==
    <<config, subsystem_states, loop_task_handle, framework_initialized,
      user_setup_called, boot_time_us>>

\* C13: tab5duino_start called while framework_initialized is false (init
\* never called, failed, or undone by deinit) returns ESP_ERR_INVALID_STATE,
\* creates no loop task, invokes no hook and leaves the instance as it was.
C13_StartBeforeInitRefused ==
    [][(CanCall /\ last'.op = "start" /\ ~framework_initialized)
          => /\ last'.ret = ESP_ERR_INVALID_STATE
             /\ main_task' = main_task
             /\ hooks' = hooks
             /\ C13_Instance' = C13_Instance]_vars

\* tab5duino_start has been refused after a tab5duino_init that failed in
\* the LVGL bring-up
C13_Witness ==
    /\ last = Returned("start", ESP_ERR_INVALID_STATE, TAB5_SUBSYSTEM_COUNT)
    /\ ~framework_initialized
    /\ subsystem_states[TAB5_SUBSYSTEM_LVGL] = TAB5_SUBSYSTEM_ERROR
    /\ subsystem_states[TAB5_SUBSYSTEM_DISPLAY] = TAB5_SUBSYSTEM_READY
    /\ main_task = NoTask

\* ---- C14 ---------------------------------------------------------------
\* C14: at most one loop task exists; loop_task_handle is non-null exactly
\* when one exists; and a tab5duino_start made while it exists returns ESP_OK
\* and creates no second task.
C14_AtMostOneMainTask ==
    /\ [](main_task.live <= 1)
    /\ []((loop_task_handle # NULL) <=> (main_task.live = 1))
    /\ []((main_task.pc # "none") <=> (main_task.live = 1))
    /\ [][(CanCall /\ last'.op = "start" /\ main_task.live = 1)
             => /\ last'.ret = ESP_OK
                /\ main_task' = main_task
                /\ loop_task_handle' = loop_task_handle]_vars

\* a second tab5duino_start has returned ESP_OK while the loop task of the
\* first was in loop()
C14_Witness ==
    /\ last = Returned("start", ESP_OK, TAB5_SUBSYSTEM_COUNT)
    /\ hooks = <<>>
    /\ main_task.live = 1
    /\ main_task.pc = "loop"
    /\ main_task.loop_calls > 0
    /\ loop_task_handle # NULL

\* ---- C15 ---------------------------------------------------------------
\* C15: when tab5duino_start gets to creating the loop task and the creation
\* fails, it returns ESP_ERR_NO_MEM, loop_task_handle stays null,
\* on_framework_ready is not invoked, and the framework is left so that the
\* next tab5duino_start creates the task again.
C15_TaskCreationFailure ==
    [][(/\ CanCall /\ last'.op = "start"
        /\ framework_initialized /\ loop_task_handle = NULL
        /\ main_task'.live = main_task.live)
          => /\ last'.ret = ESP_ERR_NO_MEM
             /\ loop_task_handle' = NULL
             /\ hooks' = hooks
             /\ main_task' = main_task
             /\ StartCreates(framework_initialized', loop_task_handle')]_vars

\* the creation of the loop task has failed in a tab5duino_start
C15_Witness ==
    /\ last = Returned("start", ESP_ERR_NO_MEM, TAB5_SUBSYSTEM_COUNT)
    /\ framework_initialized
    /\ loop_task_handle = NULL
    /\ main_task = NoTask
    /\ hooks = <<>>

\* ---- C16 ---------------------------------------------------------------
\* C16: a tab5duino_init that follows a tab5duino_init which failed part-way
\* (framework_initialized still false) returns ESP_ERR_INVALID_STATE, runs no
\* bring-up and leaves the subsystem states and the boot timestamp alone.
C16_InitAfterFailedInitRefused ==
    [][(CanCall /\ order.after_init /\ ~framework_initialized /\ last'.op = "init")
          => /\ last'.ret = ESP_ERR_INVALID_STATE
             /\ ctl' = ctl
             /\ subsystem_states' = subsystem_states
             /\ boot_time_us' = boot_time_us]_vars

\* ---- C17 ---------------------------------------------------------------
\* the documented order, and the entries of it a configuration turns on
C17_Documented ==
    <<TAB5_SUBSYSTEM_DISPLAY, TAB5_SUBSYSTEM_TOUCH, TAB5_SUBSYSTEM_IMU,
      TAB5_SUBSYSTEM_AUDIO, TAB5_SUBSYSTEM_POWER, TAB5_SUBSYSTEM_LVGL>>

C17_Enabled(cfg) ==
    LET on(s) ==
          \/ s = TAB5_SUBSYSTEM_DISPLAY /\ cfg.auto_init_display
          \/ s = TAB5_SUBSYSTEM_TOUCH /\ cfg.auto_init_touch
          \/ s = TAB5_SUBSYSTEM_IMU /\ cfg.auto_init_imu
          \/ s = TAB5_SUBSYSTEM_AUDIO /\ cfg.auto_init_audio
          \/ s = TAB5_SUBSYSTEM_POWER
          \/ s = TAB5_SUBSYSTEM_LVGL /\ cfg.auto_init_lvgl
    IN SelectSeq(C17_Documented, on)

\* C17: the subsystems a tab5duino_init run has brought up so far are, in
\* order, a prefix of display, touch, IMU, audio, power, LVGL with the ones
\* whose flag is off left out (power never left out); one bring-up is in
\* progress at a time; and a run that returns ESP_OK has brought up all of
\* them, LVGL last when its flag is on.
C17_FixedBringUpOrder ==
    /\ [](last.op = "init" =>
             /\ Len(order.init) <= Len(C17_Enabled(config))
             /\ order.init = SubSeq(C17_Enabled(config), 1, Len(order.init))
             /\ \A s \in Subsystems :
                   subsystem_states[s] = TAB5_SUBSYSTEM_INITIALIZING
                      => order.init # <<>> /\ s = order.init[Len(order.init)])
    /\ []((InitCompleted) => order.init = C17_Enabled(config))

\* a tab5duino_init with touch off and audio on has completed: display, IMU,
\* audio, power and LVGL were brought up in that order
C17_Witness ==
    /\ InitCompleted
    /\ order.init = <<TAB5_SUBSYSTEM_DISPLAY, TAB5_SUBSYSTEM_IMU, TAB5_SUBSYSTEM_AUDIO,
                      TAB5_SUBSYSTEM_POWER, TAB5_SUBSYSTEM_LVGL>>

\* ---- C18 ---------------------------------------------------------------
\* C18: tab5duino_init_subsystem(id) on a subsystem that is not
\* UNINITIALIZED returns ESP_OK, leaves every state as it was, starts no
\* bring-up and invokes no hook; a subsystem in ERROR is not tried again.
C18_InitSubsystemIdempotent ==
    [][(/\ CanCall /\ last'.op = "init_subsystem"
        /\ last'.arg \in Subsystems
        /\ subsystem_states[last'.arg] # TAB5_SUBSYSTEM_UNINITIALIZED)
          => /\ last'.ret = ESP_OK
             /\ subsystem_states' = subsystem_states
             /\ ctl' = ctl
             /\ hooks' = hooks
             /\ lv' = lv]_vars

\* tab5duino_init_subsystem(LVGL) has returned ESP_OK on the LVGL subsystem
\* left in ERROR by a failed bring-up
C18_Witness ==
    /\ last = Returned("init_subsystem", ESP_OK, TAB5_SUBSYSTEM_LVGL)
    /\ subsystem_states[TAB5_SUBSYSTEM_LVGL] = TAB5_SUBSYSTEM_ERROR
    /\ hooks = <<>>
    /\ ctl = Idle

\* ---- C19 ---------------------------------------------------------------
\* the on_subsystem_error invocations of the current call
C19_ErrorHooks == SelectSeq(hooks, LAMBDA h : h.hook = "on_subsystem_error")

\* C19: when tab5duino_init_subsystem(id) comes back from the bring-up it
\* dispatched, either the state is READY, on_subsystem_error was not invoked
\* and the application's call returns ESP_OK, or the state is ERROR, the
\* failing status is returned and on_subsystem_error was invoked exactly
\* once, with id and that status, when the state was ERROR already.
C19_BringUpOutcome ==
    [][(ctl.pc = "dispatch" /\ ctl'.pc # "dispatch")
          => \/ /\ subsystem_states'[ctl.sub] = TAB5_SUBSYSTEM_READY
                /\ C19_ErrorHooks' = C19_ErrorHooks
                /\ ctl.op = "init_subsystem" => last'.ret = ESP_OK
             \/ /\ subsystem_states'[ctl.sub] = TAB5_SUBSYSTEM_ERROR
                /\ last'.ret \notin {ESP_OK, PENDING}
                /\ C19_ErrorHooks' =
                      Append(C19_ErrorHooks,
                             [hook |-> "on_subsystem_error", subsystem |-> ctl.sub,
                              error |-> last'.ret,
                              state |-> TAB5_SUBSYSTEM_ERROR])]_vars

\* tab5duino_init_subsystem(LVGL) has failed with ESP_ERR_NO_MEM and reported
\* it through on_subsystem_error
C19_Witness ==
    /\ ctl.pc = "idle"
    /\ last = Returned("init_subsystem", ESP_ERR_NO_MEM, TAB5_SUBSYSTEM_LVGL)
    /\ subsystem_states[TAB5_SUBSYSTEM_LVGL] = TAB5_SUBSYSTEM_ERROR
    /\ Len(hooks) = 1
    /\ hooks[1].hook = "on_subsystem_error"

\* ---- C20 ---------------------------------------------------------------
\* C20: tab5duino_deinit_subsystem(id) with a valid id returns ESP_OK and
\* leaves the subsystem UNINITIALIZED, whatever its state was, and the other
\* subsystems as they were.
C20_DeinitSubsystemAlwaysSucceeds ==
    [][(CanCall /\ last'.op = "deinit_subsystem" /\ last'.arg \in Subsystems)
          => /\ last'.ret = ESP_OK
             /\ subsystem_states'[last'.arg] = TAB5_SUBSYSTEM_UNINITIALIZED
             /\ \A s \in Subsystems \ {last'.arg} :
                   subsystem_states'[s] = subsystem_states[s]]_vars

\* tab5duino_deinit_subsystem(LVGL) has returned ESP_OK on an LVGL subsystem
\* that had been brought up (its engine handle exists), and the subsystem is
\* UNINITIALIZED
C20_Witness ==
    /\ last = Returned("deinit_subsystem", ESP_OK, TAB5_SUBSYSTEM_LVGL)
    /\ subsystem_states[TAB5_SUBSYSTEM_LVGL] = TAB5_SUBSYSTEM_UNINITIALIZED
    /\ lvgl_handle # NULL
    /\ lvgl_handle \in lv.live

\* ---- C21 ---------------------------------------------------------------
\* C21: lvgl_tab5_start returns ESP_ERR_INVALID_STATE both for a handle that
\* is null or not initialized and for a handle that is already started, and
\* in either case creates no engine task and changes nothing.
C21_StartRefusedUnlessStartable ==
    [][(/\ lv_last.op = "none"
        /\ lv_last'.op = "start"
        /\ \/ lv_last'.h = NULL
           \/ ~lv.handles[lv_last'.h].initialized
           \/ lv.handles[lv_last'.h].started)
          => /\ lv_last'.ret = ESP_ERR_INVALID_STATE
             /\ lv' = lv]_vars

\* ---- C22 ---------------------------------------------------------------
\* C22: when the engine task cannot be created, lvgl_tab5_start returns
\* ESP_ERR_NO_MEM, the tick timer it had armed is stopped again, the handle
\* is not started, has no engine task, and the ready callback is not reached.
C22_StartTaskCreationFailure ==
    (lv_last.op = "start" /\ lv_last.fault.step = "task")
       => /\ lv_last.ret = ESP_ERR_NO_MEM
          /\ lv.tick_timer # NULL
          /\ ~lv.timers[lv.tick_timer].running
          /\ ~lv.handles[lv_last.h].started
          /\ ~lv.handles[lv_last.h].lvgl_task
          /\ lv_last.h \notin lv.tasks
          /\ ~lv_last.fault.ready

\* lvgl_tab5_start has failed at the task creation, after it had started
\* both HALs and the tick timer
C22_Witness ==
    /\ lv_last.op = "start"
    /\ lv_last.fault.step = "task"
    /\ lv_last.ret = ESP_ERR_NO_MEM
    /\ lv_last.h \in lv.hal_started["touch_hal"]

C24_AtMostOneEngine ==
    /\ Cardinality(lv.live) <= 1
    /\ Cardinality(lv.tasks) <= 1
    /\ \A t \in LiveTimers(lv) :
          /\ t = lv.tick_timer
          /\ lv.timers[t].arg \in lv.live

\* ---- C25 ---------------------------------------------------------------
\* C25: lvgl_task runs lv_timer_handler and updates frame_count and
\* fps_average only while it holds the mutex, it has given the mutex back
\* when it sleeps, and no step of another task changes the two counters.
C25_EngineWorksUnderLock ==
    /\ [](tpc[EngineTask] \in {"handler", "give"} => mutex_holder = EngineTask)
    /\ [](tpc[EngineTask] = "delay" => mutex_holder # EngineTask)
    /\ [][engine' # engine
            => /\ tpc[EngineTask] = "handler"
               /\ tpc'[EngineTask] = "give"
               /\ mutex_holder = EngineTask
               /\ mutex_holder' = EngineTask]_vars

\* the engine task sleeps after an iteration that moved the frame count into
\* fps_average, and a user task has taken the mutex meanwhile
C25_Witness ==
    /\ tpc[EngineTask] = "delay"
    /\ engine.fps_average = MaxFrames
    /\ engine.frame_count = 0
    /\ mutex_holder \in UserTasks

\* ---- C26 ---------------------------------------------------------------
\* C26: the three screen helpers make their LVGL call only while they hold
\* the mutex, never while lvgl_task is between its take and its give, and
\* hold nothing when they return; a helper whose lvgl_tab5_lock returned
\* false has made no LVGL call and returns ESP_ERR_TIMEOUT (a null screen
\* for lvgl_tab5_create_screen).
C26_Failed ==
    [op \in HelperOps |-> IF op = "create_screen" THEN "NULL" ELSE ESP_ERR_TIMEOUT]

C26_HelpersUnderLock ==
    /\ [](tpc[HelperTask] \in {"body", "unlock"}
            => /\ mutex_holder = HelperTask
               /\ tpc[EngineTask] \notin {"handler", "give"})
    /\ [](tpc[HelperTask] \in {"idle", "returned"} => mutex_holder # HelperTask)
    /\ [](tpc[HelperTask] = "returned"
            => LET c == tres[HelperTask]
               IN /\ c.changed => c.locked
                  /\ (HelperGuard(c.op, c.h, c.screen) = "none" /\ ~c.locked)
                        => (~c.changed /\ c.ret = C26_Failed[c.op])
                  /\ c.locked => (c.changed /\ c.ret \notin {"NULL", ESP_ERR_TIMEOUT}))
    /\ [][render' # render
            => \/ tpc[HelperTask] = "body" /\ mutex_holder = HelperTask
               \/ tpc[EngineTask] = "handler" /\ mutex_holder = EngineTask]_vars

\* lvgl_tab5_load_screen has waited its whole timeout for the mutex the
\* engine task holds and has returned ESP_ERR_TIMEOUT
C26_Witness ==
    /\ tpc[HelperTask] = "returned"
    /\ tres[HelperTask].op = "load_screen"
    /\ tres[HelperTask].ret = ESP_ERR_TIMEOUT
    /\ ~tres[HelperTask].locked
    /\ mutex_holder = EngineTask
    /\ render.active = 0

\* ---- C27 ---------------------------------------------------------------
\* C27: the engine task that lvgl_tab5_stop has deleted does not hold the
\* mutex, and neither does the engine task that has just been created again
\* and is about to take it.
C27_DeletedTaskHoldsNoLock ==
    (tpc[EngineTask] \in {"deleted", "take"}) => mutex_holder # EngineTask

\* ---- C28 ---------------------------------------------------------------
\* C28: boot_time_us changes only in the first tab5duino_init call since the
\* instance was zeroed (whether or not that call then succeeds) and in
\* tab5duino_deinit; a repeated tab5duino_init and a tab5duino_init after a
\* failed one leave it alone.
C28_BootTimeCapturedOnce ==
    [][boot_time_us' # boot_time_us
          => \/ last'.op = "deinit"
             \/ /\ last'.op = "init"
                /\ ~order.after_init
                /\ ctl'.pc = "hw"
                /\ ctl'.idx = 1]_vars

\* ---- C29 ---------------------------------------------------------------
\* the number of invocations of a hook among the hooks of the current call
C29_Count(h, name) == Len(SelectSeq(h, LAMBDA c : c.hook = name))

C31_SetupOncePerLifetime ==
    [][/\ (main_task.pc = "setup" /\ main_task'.pc = "flag") => ~user_setup_called
       /\ main_task'.loop_calls > main_task.loop_calls
            => (main_task.pc = "loop" /\ main_task.setup_calls = 1)]_vars

\* ---- C32 ---------------------------------------------------------------
\* C32: tab5duino_deinit of an initialized framework that holds what one
\* tab5duino_init created (at most the engine handle of the controller)
\* leaves the zeroed instance and no engine handle, engine task, tick timer
\* or USB-serial driver, which is the state the first tab5duino_init started
\* from, so that the tab5duino_init that follows reaches what the first did.
C32_DeinitRestoresBootState ==
    [][(/\ CanCall
        /\ last'.op = "deinit"
        /\ framework_initialized
        /\ lv.live \subseteq {lvgl_handle})
          => /\ lv' = LvWorldInit
             /\ ~usb_installed'
             /\ subsystem_states' = ZeroStates
             /\ ~framework_initialized'
             /\ loop_task_handle' = NULL]_vars

\* ---- C33 ---------------------------------------------------------------
\* the tick timers created for a handle
C33_TimersOf(w, h) == {t \in TimerIds : w.timers[t].live /\ w.timers[t].arg = h}

\* C33: lvgl_tab5_stop on a started handle returns ESP_OK with the engine
\* task deleted, the handle's tick timer halted, both HALs stopped and
\* started false, and on a handle that is not started returns ESP_OK and
\* changes nothing; lvgl_tab5_deinit stops the handle and releases only
\* objects that are still allocated, so none of them twice.
C33_StopAndDeinit ==
    [][LET h == lv_last'.h
       IN /\ (lv_last.op = "none" /\ lv_last'.op = "stop" /\ h # NULL)
               => IF lv.handles[h].started
                    THEN /\ lv_last'.ret = ESP_OK
                         /\ h \notin lv'.tasks
                         /\ ~lv'.handles[h].lvgl_task
                         /\ ~lv'.handles[h].started
                         /\ h \notin lv'.hal_started["display_hal"]
                         /\ h \notin lv'.hal_started["touch_hal"]
                         /\ \A t \in C33_TimersOf(lv', h) : ~lv'.timers[t].running
                    ELSE lv_last'.ret = ESP_OK /\ lv' = lv
          /\ (lv_last.op = "none" /\ lv_last'.op = "deinit" /\ h # NULL)
               => /\ \A k \in ResourceKinds :
                        lv.handles[h][FieldOf[k]] => h \in lv.res[k]
                  /\ lv.tick_timer # NULL => lv.timers[lv.tick_timer].live
                  /\ h \in lv.live
                  /\ h \notin lv'.tasks
                  /\ ~lv'.handles[h].started]_vars

\* ---- C34 ---------------------------------------------------------------
\* C34: between controller calls, while the LVGL subsystem is UNINITIALIZED
\* or ERROR nothing the controller's LVGL bring-up created is left: no
\* engine handle, engine task, HAL object or tick timer.
C34_NoEngineUnlessLvglUp ==
    (/\ ctl.pc = "idle"
     /\ subsystem_states[TAB5_SUBSYSTEM_LVGL]
           \in {TAB5_SUBSYSTEM_UNINITIALIZED, TAB5_SUBSYSTEM_ERROR})
       => /\ lv.live = {}
          /\ lv.tasks = {}
          /\ lv.res["display_hal"] = {}
          /\ lv.res["touch_hal"] = {}
          /\ LiveTimers(lv) = {}

\* ---- C35 ---------------------------------------------------------------
\* C35: whenever tab5duino_is_ready() is true a loop task exists and it has
\* returned from setup().
C35_ReadyMeansSetupReturned ==
    tab5duino_is_ready => main_task.pc \in {"flag", "loop"}

\* ---- C36 ---------------------------------------------------------------
\* C36: on_lvgl_ready is invoked only by a bring-up in which lvgl_tab5_init
\* and lvgl_tab5_start both succeeded, and while it runs the engine task
\* exists and tab5duino_get_subsystem_state(LVGL) returns READY.
C36_LvglReadyHookSeesReady ==
    \A i \in 1..Len(hooks) :
        hooks[i].hook = "on_lvgl_ready"
           => /\ hooks[i].subsystem = TAB5_SUBSYSTEM_LVGL
              /\ lvgl_handle # NULL
              /\ lvgl_handle \in lv.tasks
              /\ LvIsReady(lv, lvgl_handle)
              /\ hooks[i].state = TAB5_SUBSYSTEM_READY

\* ---- C37 ---------------------------------------------------------------
\* C37: a lvgl_tab5_start that does not return ESP_OK leaves everything as
\* it was before the call: no HAL started by it stays started, the tick timer
\* is not running, no engine task exists and started is false.
C37_FailedStartChangesNothing ==
    [][(lv_last.op = "none" /\ lv_last'.op = "start" /\ lv_last'.ret # ESP_OK)
          => lv' = lv]_vars

\* ---- C38 ---------------------------------------------------------------
\* C38: the render lock is not re-entrant - a task that holds it (the engine
\* task inside its processing step included) and calls lvgl_tab5_lock or a
\* helper with a finite timeout stays the holder throughout, and the call
\* returns its failure result (false, NULL, ESP_ERR_TIMEOUT) after exactly
\* the ticks of its timeout, without having run its LVGL call.
C38_LockNotReentrant ==
    \A t \in NestTasks :
       /\ tpc[t] \in {"nested", "nested_done"} => mutex_holder = t
       /\ tpc[t] = "nested_done"
            => /\ tres[t].ret = NestFailed(tres[t].op)
               /\ tres[t].ret \in {"false", "NULL", ESP_ERR_TIMEOUT}
               /\ tres[t].waited = TimeoutTicks(tres[t].ms)
               /\ ~tres[t].changed

\* the engine task has called lvgl_tab5_load_screen from inside its
\* processing step, has waited the 100 ticks, and got ESP_ERR_TIMEOUT
C38_Witness ==
    /\ tpc[EngineTask] = "nested_done"
    /\ tres[EngineTask].op = "load_screen"
    /\ tres[EngineTask].ret = ESP_ERR_TIMEOUT
    /\ tres[EngineTask].waited = pdMS_TO_TICKS(HELPER_LOCK_TIMEOUT_MS)
    /\ mutex_holder = EngineTask

\* ---- C39 ---------------------------------------------------------------
\* C39: tab5duino_stop and tab5duino_deinit complete when the loop task
\* itself calls them from setup() or loop(): once the task has made the call,
\* loop_task_handle is null, and after tab5duino_deinit the instance is
\* zeroed as well.
C39_StopCompletesFromLoopTask ==
    main_task.pc \in SelfCalls
       => /\ loop_task_handle = NULL
          /\ main_task.pc = "in_deinit"
               => (~framework_initialized /\ subsystem_states = ZeroStates)

\* ---- C40 ---------------------------------------------------------------
\* C40: no task is starved of the render lock - every
\* lvgl_tab5_lock(handle, portMAX_DELAY) that blocks eventually returns true,
\* and the engine task is inside its processing step infinitely often.
C40_NoStarvation ==
    /\ \A t \in UserTasks : (tpc[t] = "blocked") ~> (tpc[t] = "locked")
    /\ []<>(tpc[EngineTask] = "handler")

====
